---- MODULE Spec2Model ----
(***************************************************************************)
(* Scoring / aggregation pipeline of the manager survey report:            *)
(* data_processor.py (find_question_columns, clean_and_score,              *)
(* compute_dimension_scores, compute_behavior_scores,                      *)
(* get_person_total_and_dims) and its two callers, load_and_process in     *)
(* app.py and main in generate_report_demo.py (Spec); the open-text mining *)
(* of app.py as run by tab 4 (SpecText) and function by function           *)
(* (SpecCalls); one browser session of app.py (SpecSession).               *)
(*                                                                         *)
(* Text is a sequence of characters (one-character strings; a scale label  *)
(* is kept as one symbol).  A float is an exact fraction [n, d] with       *)
(* d > 0, in lowest terms; the missing value NaN is [n |-> 0, d |-> 0].    *)
(***************************************************************************)
EXTENDS Integers, Sequences, FiniteSets, TLC

(* ---------------- bounds of the model ---------------- *)
MaxRows == 2
MaxCols == 3
MaxCells == 4
MaxFrags == 3
MaxRepr == 2
MaxPhrases == 2
MaxPersons == 4

(* ---------------- numbers ---------------- *)
NaN == [n |-> 0, d |-> 0]

IsNaN(v) == v.d = 0

Abs(x) == IF x < 0 THEN -x ELSE x

RECURSIVE Gcd(_, _)
Gcd(a, b) == IF b = 0 THEN a ELSE Gcd(b, a % b)

Frac(a, b) ==
    LET g == Gcd(Abs(a), b) IN [n |-> a \div g, d |-> b \div g]

Num(k) == [n |-> k, d |-> 1]

FAdd(x, y) == Frac(x.n * y.d + y.n * x.d, x.d * y.d)

RECURSIVE SeqSum(_)
SeqSum(s) == IF s = <<>> THEN Num(0) ELSE FAdd(Head(s), SeqSum(Tail(s)))

(* numpy.mean / pandas mean over the non-missing values already selected *)
MeanOfSeq(s) ==
    IF s = <<>> THEN NaN
    ELSE LET t == SeqSum(s) IN Frac(t.n, t.d * Len(s))

RECURSIVE DropNaN(_)
DropNaN(s) ==
    IF s = <<>> THEN <<>>
    ELSE IF IsNaN(Head(s)) THEN DropNaN(Tail(s))
         ELSE <<Head(s)>> \o DropNaN(Tail(s))

(* Series.mean() / DataFrame.mean(): skipna=True *)
NanMean(s) == MeanOfSeq(DropNaN(s))

(* ---------------- text ---------------- *)
(* the white space str.strip() removes *)
IsSpace(c) == c \in {" ", "\n"}

RECURSIVE LStrip(_)
LStrip(s) == IF s # <<>> /\ IsSpace(Head(s)) THEN LStrip(Tail(s)) ELSE s

RECURSIVE RStrip(_)
RStrip(s) ==
    IF s # <<>> /\ IsSpace(s[Len(s)]) THEN RStrip(SubSeq(s, 1, Len(s) - 1)) ELSE s

Strip(s) == RStrip(LStrip(s))

(* Python: k in h *)
IsSubstring(k, h) ==
    \E i \in 0..(Len(h) - Len(k)) : SubSeq(h, i + 1, i + Len(k)) = k

(* ---------------- configuration (config.py) ---------------- *)
SCORE_MAP ==
    [l \in {"always", "often", "sometimes", "seldom", "never"} |->
        CASE l = "always" -> 5
          [] l = "often" -> 4
          [] l = "sometimes" -> 3
          [] l = "seldom" -> 2
          [] l = "never" -> 1]

QUESTION_MAPPING ==
    << [keyword |-> <<"a">>, category |-> "D1", behavior |-> "B1"],
       [keyword |-> <<"b">>, category |-> "D1", behavior |-> "B1"],
       [keyword |-> <<"c">>, category |-> "D2", behavior |-> "B2"] >>

CATEGORY_ORDER == <<"D1", "D2">>

(* ---------------- inputs ---------------- *)
Headers == { <<"a">>, <<"b", " ">>, <<"a", "c">>, <<"x">> }

Missing == [kind |-> "nan", text |-> <<>>, num |-> 0]
StrCell(t) == [kind |-> "str", text |-> t, num |-> 0]
NumCell(k) == [kind |-> "num", text |-> <<>>, num |-> k]

CellValues ==
    { StrCell(<<" ", "always", " ">>), StrCell(<<"o", "k">>), StrCell(<<"7">>),
      NumCell(3), Missing }

Range(s) == {s[i] : i \in 1..Len(s)}

HeaderSeqs ==
    {h \in UNION {[1..c -> Headers] : c \in 1..MaxCols} :
        \A i, j \in 1..Len(h) : i # j => h[i] # h[j]}

(* the row counts a table with ncols columns may have *)
RowCounts(ncols) == {k \in 0..MaxRows : k * ncols <= MaxCells}

(* the pieces free text is made of: gou tong bu zu ".", xi wang gou tong,
   bu zhi dao nan ";", a padded hen nan hen da with a line break, hen da hen
   da "!", nan "?", and wu (the fill value of an empty cell) *)
Fragments ==
    { <<"gou", "tong", "bu", "zu", ".">>,
      <<"xi", "wang", "gou", "tong">>,
      <<"bu", "zhi", "dao", "nan", ";">>,
      <<" ", "hen", "nan", "hen", "da", "\n">>,
      <<"hen", "da", "hen", "da", "!">>,
      <<"nan", "?">>,
      <<"wu">> }

(* n characters, a trigger and then filling *)
Block(n) == [i \in 1..n |-> IF i = 1 THEN "nan" ELSE "hen"]

(* sentences of a text handed to the extraction: two of 51 characters alike
   in the first 50, two of 50 characters alike in the first 49, one without
   a trigger and one too short *)
Sentences ==
    { Block(50) \o <<"da", ".">>,
      Block(50) \o <<"zu", "!">>,
      Block(49) \o <<"da", "\n">>,
      Block(49) \o <<"zu", ";">>,
      <<"hen", "da", "hen", "da", "?">>,
      <<"nan", ".">> }

(* the mark between the texts of two cells *)
NextCell == <<"next cell">>

(* ---------------- pandas cell conversions ---------------- *)
Digits == <<"0", "1", "2", "3", "4", "5", "6", "7", "8", "9">>

IsDigit(c) == \E i \in 1..10 : Digits[i] = c

DigitVal(c) == (CHOOSE i \in 1..10 : Digits[i] = c) - 1

RECURSIVE IntToText(_)
IntToText(k) ==
    IF k < 10 THEN <<Digits[k + 1]>>
    ELSE IntToText(k \div 10) \o <<Digits[(k % 10) + 1]>>

RECURSIVE DigitsToInt(_)
DigitsToInt(t) ==
    IF t = <<>> THEN 0
    ELSE DigitsToInt(SubSeq(t, 1, Len(t) - 1)) * 10 + DigitVal(t[Len(t)])

(* a column holding any text has dtype object *)
IsObjectColumn(cells) == \E i \in 1..Len(cells) : cells[i].kind = "str"

(* Series.astype(str).str.strip() *)
AsStrStripped(cell) ==
    CASE cell.kind = "str" -> StrCell(Strip(cell.text))
      [] cell.kind = "num" -> StrCell(IntToText(cell.num))
      [] cell.kind = "nan" -> StrCell(<<"n", "a", "n">>)

(* DataFrame.replace(SCORE_MAP): a cell equal to a key becomes its score *)
ReplaceScoreMap(cell) ==
    IF cell.kind = "str" /\ Len(cell.text) = 1 /\ cell.text[1] \in DOMAIN SCORE_MAP
    THEN NumCell(SCORE_MAP[cell.text[1]])
    ELSE cell

(* pd.to_numeric(errors="coerce").astype(float) *)
ToNumeric(cell) ==
    CASE cell.kind = "num" -> Num(cell.num)
      [] cell.kind = "nan" -> NaN
      [] cell.kind = "str" ->
            IF cell.text # <<>> /\ \A i \in 1..Len(cell.text) : IsDigit(cell.text[i])
            THEN Num(DigitsToInt(cell.text))
            ELSE NaN

(* the conversions clean_and_score applies to one column of cells *)
ScoreColumn(cells) ==
    LET stripped == IF IsObjectColumn(cells)
                    THEN [i \in 1..Len(cells) |-> AsStrStripped(cells[i])]
                    ELSE cells
    IN [i \in 1..Len(cells) |-> ToNumeric(ReplaceScoreMap(stripped[i]))]

(* ---------------- data_processor.py ---------------- *)
ColumnCells(df, j) == [i \in 1..Len(df.rows) |-> df.rows[i][j]]

(* position of the first column named col *)
ColIndex(columns, col) ==
    CHOOSE j \in 1..Len(columns) :
        columns[j] = col /\ \A k \in 1..(j - 1) : columns[k] # col

(* slip: the scan keeps going after a hit, so the last column wins *)
LastMatch(columns, keyword) ==
    LET hits == {j \in 1..Len(columns) : IsSubstring(keyword, Strip(columns[j]))}
    IN IF hits = {} THEN 0 ELSE CHOOSE j \in hits : \A k \in hits : j >= k

FirstMatch(columns, keyword) ==
    LET hits == {j \in 1..Len(columns) : IsSubstring(keyword, Strip(columns[j]))}
    IN IF hits = {} THEN 0 ELSE CHOOSE j \in hits : \A k \in hits : j <= k

RECURSIVE FindFrom(_, _)
FindFrom(columns, e) ==
    IF e > Len(QUESTION_MAPPING) THEN <<>>
    ELSE LET q == QUESTION_MAPPING[e]
             j == FirstMatch(columns, q.keyword)
         IN (IF j = 0 THEN <<>>
             ELSE << [col |-> columns[j], category |-> q.category,
                      behavior |-> q.behavior] >>)
            \o FindFrom(columns, e + 1)

(* slip: columns scanned first, each taking the first entry that matches it *)
RECURSIVE FirstFitFrom(_, _)
FirstFitFrom(columns, j) ==
    IF j > Len(columns) THEN <<>>
    ELSE LET es == {e \in 1..Len(QUESTION_MAPPING) :
                      IsSubstring(QUESTION_MAPPING[e].keyword, Strip(columns[j]))}
         IN (IF es = {} THEN <<>>
             ELSE LET q == QUESTION_MAPPING[CHOOSE e \in es : \A f \in es : e <= f]
                  IN << [col |-> columns[j], category |-> q.category,
                         behavior |-> q.behavior] >>)
            \o FirstFitFrom(columns, j + 1)

find_question_columns_first_fit(df) == FirstFitFrom(df.columns, 1)

find_question_columns(df) == FindFrom(df.columns, 1)

(* dict comprehension {col: (cat, be) for ...}: a repeated key keeps its
   first position and takes the last value *)
RECURSIVE DictOf(_)
DictOf(pairs) ==
    IF pairs = <<>> THEN <<>>
    ELSE LET init == DictOf(SubSeq(pairs, 1, Len(pairs) - 1))
             p == pairs[Len(pairs)]
         IN IF \E i \in 1..Len(init) : init[i].col = p.col
            THEN [i \in 1..Len(init) |->
                    IF init[i].col = p.col THEN p ELSE init[i]]
            ELSE Append(init, p)

NoTable == [columns |-> <<>>, rows |-> <<>>]

HasDuplicates(s) == \E i, j \in 1..Len(s) : i # j /\ s[i] = s[j]

(* result.status: "none" (None, [], []), "raised" (AttributeError: a column
   selected twice makes df_q[c] a DataFrame, which has no dtype), "ok";
   result.cols_mapping is the local of that name *)
clean_and_score(df) ==
    LET cols_mapping == find_question_columns(df)
        question_cols == [i \in 1..Len(cols_mapping) |-> cols_mapping[i].col]
    IN IF cols_mapping = <<>>
       THEN [status |-> "none", cols_mapping |-> cols_mapping,
             df_q |-> NoTable, col_to_cat_be |-> <<>>]
       ELSE IF HasDuplicates(question_cols)
       THEN [status |-> "raised", cols_mapping |-> cols_mapping,
             df_q |-> NoTable, col_to_cat_be |-> <<>>]
       ELSE LET scored == [k \in 1..Len(question_cols) |->
                            ScoreColumn(ColumnCells(df, ColIndex(df.columns, question_cols[k])))]
            IN [status |-> "ok",
                cols_mapping |-> cols_mapping,
                df_q |-> [columns |-> question_cols,
                          rows |-> [i \in 1..Len(df.rows) |->
                                      [k \in 1..Len(question_cols) |-> scored[k][i]]]],
                col_to_cat_be |-> DictOf(cols_mapping)]

(* the categories of the mapping, in order of first occurrence *)
RECURSIVE CatsInOrder(_)
CatsInOrder(items) ==
    IF items = <<>> THEN <<>>
    ELSE LET init == CatsInOrder(SubSeq(items, 1, Len(items) - 1))
             c == items[Len(items)].category
         IN IF \E i \in 1..Len(init) : init[i] = c THEN init ELSE Append(init, c)

(* df_scores.loc[idx, col] *)
Loc(df_scores, i, col) == df_scores.rows[i][ColIndex(df_scores.columns, col)]

(* row[cat]: the non-missing values of row i in the columns tagged cat *)
RECURSIVE RowCatValues(_, _, _, _)
RowCatValues(df_scores, items, i, cat) ==
    IF items = <<>> THEN <<>>
    ELSE LET init == RowCatValues(df_scores, SubSeq(items, 1, Len(items) - 1), i, cat)
             it == items[Len(items)]
             v == Loc(df_scores, i, it.col)
         IN IF it.category = cat /\ ~IsNaN(v) THEN Append(init, v) ELSE init

(* slip: a dimension without answers scores zero *)
DimValue_zero(df_scores, items, i, cat) ==
    LET vals == RowCatValues(df_scores, items, i, cat)
    IN IF vals # <<>> THEN MeanOfSeq(vals) ELSE Num(0)

DimValue(df_scores, items, i, cat) ==
    LET vals == RowCatValues(df_scores, items, i, cat)
    IN IF vals # <<>> THEN MeanOfSeq(vals) ELSE NaN

(* pd.DataFrame(rows, index): without rows the frame has no columns *)
compute_dimension_scores(df_scores, col_to_cat_be) ==
    LET cats == CatsInOrder(col_to_cat_be)
    IN IF df_scores.rows = <<>> THEN NoTable
       ELSE [columns |-> cats,
             rows |-> [i \in 1..Len(df_scores.rows) |->
                         [k \in 1..Len(cats) |->
                            DimValue(df_scores, col_to_cat_be, i, cats[k])]]]

(* slip: missing values counted as zero, fillna(0).mean() *)
ColumnMean_fillna(table, col) ==
    LET cells == ColumnCells(table, ColIndex(table.columns, col))
    IN MeanOfSeq([i \in 1..Len(cells) |-> IF IsNaN(cells[i]) THEN Num(0) ELSE cells[i]])

(* df_scores[col].mean() *)
ColumnMean(table, col) ==
    NanMean(ColumnCells(table, ColIndex(table.columns, col)))

EmptyDict == [x \in {} |-> NaN]

RECURSIVE compute_behavior_scores(_, _)
compute_behavior_scores(df_scores, items) ==
    IF items = <<>> THEN EmptyDict
    ELSE LET out == compute_behavior_scores(df_scores, SubSeq(items, 1, Len(items) - 1))
             it == items[Len(items)]
             inner == IF it.category \in DOMAIN out THEN out[it.category] ELSE EmptyDict
         IN (it.category :> ((it.behavior :> ColumnMean(df_scores, it.col)) @@ inner))
            @@ out

get_behavior_avg_by_dimension(df_scores, items) ==
    compute_behavior_scores(df_scores, items)

InColumns(table, c) == \E k \in 1..Len(table.columns) : table.columns[k] = c

(* slip: total = df_dims.mean(axis=1), the mean of the dimension means *)
get_person_total_from_dims(df_scores, df_dims) ==
    [total |-> [i \in 1..Len(df_scores.rows) |->
                   IF df_dims.rows = <<>> THEN NaN ELSE NanMean(df_dims.rows[i])],
     dim_scores |-> df_dims]

(* total = df_scores.mean(axis=1); dim_scores = df_dims[dim_cols] *)
get_person_total_and_dims(df_scores, df_dims) ==
    LET dim_cols == SelectSeq(CATEGORY_ORDER, LAMBDA c : InColumns(df_dims, c))
    IN [total |-> [i \in 1..Len(df_scores.rows) |-> NanMean(df_scores.rows[i])],
        dim_scores |->
            [columns |-> dim_cols,
             rows |-> [i \in 1..Len(df_dims.rows) |->
                         [k \in 1..Len(dim_cols) |->
                            df_dims.rows[i][ColIndex(df_dims.columns, dim_cols[k])]]]]]

(* df_dims[CATEGORY_ORDER].mean() if all(...) else df_dims.mean() *)
OverviewDimMeans(df_dims) ==
    LET cols == IF \A k \in 1..Len(CATEGORY_ORDER) : InColumns(df_dims, CATEGORY_ORDER[k])
                THEN Range(CATEGORY_ORDER) ELSE Range(df_dims.columns)
    IN [c \in cols |-> ColumnMean(df_dims, c)]

(* [(c, float(df_dims[c].mean())) for c in dim_cols] *)
PdfDimMeans(df_dims) ==
    LET dim_cols == SelectSeq(CATEGORY_ORDER, LAMBDA c : InColumns(df_dims, c))
    IN [k \in 1..Len(dim_cols) |->
          [dim |-> dim_cols[k], mean |-> ColumnMean(df_dims, dim_cols[k])]]

(* ---------------- open-text mining (app.py) ---------------- *)
(* A CJK character is written as its pinyin, one string per character;
   "." "!" "?" ";" and "," stand for the full-width marks. *)
None == <<>>

(* five of the fifty triggers of the table *)
PAIN_POINT_TRIGGERS ==
    { <<"nan">>, <<"xi", "wang">>, <<"bu", "zhi", "dao">>, <<"shi", "jian">>,
      <<"gou", "tong">> }

TRIGGER_DISPLAY ==
    [t \in PAIN_POINT_TRIGGERS |->
        CASE t = <<"nan">> -> "problems and challenges"
          [] t = <<"bu", "zhi", "dao">> -> "problems and challenges"
          [] t = <<"xi", "wang">> -> "expectations and needs"
          [] t = <<"shi", "jian">> -> "time and energy"
          [] t = <<"gou", "tong">> -> "communication and cooperation"]

(* TRIGGER_DISPLAY.get(t, t) *)
Display(t) == IF t \in DOMAIN TRIGGER_DISPLAY THEN TRIGGER_DISPLAY[t] ELSE t

(* the orders in which a set of strings can be iterated: the order follows
   the hashes of the strings, which are salted anew in every process *)
IterationOrders(S) ==
    {o \in [1..Cardinality(S) -> S] :
        \A i, j \in 1..Cardinality(S) : i # j => o[i] # o[j]}

(* the positions of keys, greatest key first, equal keys in their order *)
RECURSIVE StableOrderDesc(_, _)
StableOrderDesc(keys, todo) ==
    IF todo = {} THEN <<>>
    ELSE LET i == CHOOSE a \in todo :
                    \A b \in todo : keys[a] > keys[b] \/ (keys[a] = keys[b] /\ a <= b)
         IN <<i>> \o StableOrderDesc(keys, todo \ {i})

(* sorted(s, key=..., reverse=True), keys[i] being the key of s[i] *)
SortedDesc(s, keys) ==
    LET p == StableOrderDesc(keys, 1..Len(s)) IN [i \in 1..Len(s) |-> s[p[i]]]

LenKeys(s) == [i \in 1..Len(s) |-> Len(s[i])]

(* slip: the triggers are tried in the iteration order of the set *)
TriggerOrderOf_unsorted(o) == o

(* TRIGGER_ORDER = sorted(PAIN_POINT_TRIGGERS, key=len, reverse=True), o being
   the order in which the set is iterated *)
TriggerOrderOf(o) == SortedDesc(o, LenKeys(o))

(* slip: one-character triggers are skipped *)
primary_trigger_multichar(order, phrase) ==
    LET hits == {i \in 1..Len(order) :
                    Len(order[i]) > 1 /\ IsSubstring(order[i], phrase)}
    IN IF hits = {} THEN None ELSE order[CHOOSE i \in hits : \A j \in hits : i <= j]

(* _primary_trigger, order being the module's TRIGGER_ORDER *)
primary_trigger(order, phrase) ==
    LET hits == {i \in 1..Len(order) : IsSubstring(order[i], phrase)}
    IN IF hits = {} THEN None ELSE order[CHOOSE i \in hits : \A j \in hits : i <= j]

(* s[:n] *)
Prefix(s, n) == SubSeq(s, 1, IF Len(s) < n THEN Len(s) ELSE n)

(* slip: the shared characters are not looked at *)
Overlaps_never(p_clean, k, sim_threshold) == FALSE

(* len(set_p & set_k) / max(len(set_p), len(set_k), 1) >= sim_threshold *)
Overlaps(p_clean, k, sim_threshold) ==
    LET set_p == Range(p_clean)
        set_k == Range(k)
        a == Cardinality(set_p)
        b == Cardinality(set_k)
        m == IF a >= b /\ a >= 1 THEN a ELSE IF b >= 1 THEN b ELSE 1
    IN Cardinality(set_p \cap set_k) * sim_threshold.d >= sim_threshold.n * m

RECURSIVE DedupeLoop(_, _, _, _, _)
DedupeLoop(sorted_p, i, kept, max_repr, sim_threshold) ==
    IF i > Len(sorted_p) THEN kept
    ELSE LET p_clean == Strip(sorted_p[i])
         IN IF Len(p_clean) < 3
            THEN DedupeLoop(sorted_p, i + 1, kept, max_repr, sim_threshold)
            ELSE LET is_dup == \E j \in 1..Len(kept) :
                                  \/ IsSubstring(p_clean, kept[j])
                                  \/ IsSubstring(kept[j], p_clean)
                                  \/ Overlaps(p_clean, kept[j], sim_threshold)
                     kept2 == IF is_dup THEN kept ELSE Append(kept, p_clean)
                 IN IF Len(kept2) >= max_repr THEN kept2
                    ELSE DedupeLoop(sorted_p, i + 1, kept2, max_repr, sim_threshold)

(* slip: the phrases are walked in the order given *)
dedupe_similar_unsorted(phrases, max_repr, sim_threshold) ==
    IF phrases = <<>> THEN <<>>
    ELSE Prefix(DedupeLoop(phrases, 1, <<>>, max_repr, sim_threshold), max_repr)

(* _dedupe_similar; the threshold is a fraction [n, d] *)
dedupe_similar(phrases, max_repr, sim_threshold) ==
    IF phrases = <<>> THEN <<>>
    ELSE LET sorted_p == SortedDesc(phrases, LenKeys(phrases))
         IN Prefix(DedupeLoop(sorted_p, 1, <<>>, max_repr, sim_threshold), max_repr)

(* the keys of a dict filled in the order of s *)
RECURSIVE FirstSeen(_)
FirstSeen(s) ==
    IF s = <<>> THEN <<>>
    ELSE LET init == FirstSeen(SubSeq(s, 1, Len(s) - 1))
             x == s[Len(s)]
         IN IF x \in Range(init) THEN init ELSE Append(init, x)

RECURSIVE Concat(_)
Concat(ss) == IF ss = <<>> THEN <<>> ELSE Head(ss) \o Concat(Tail(ss))

(* by_trigger, then the lists of by_trigger merged under the theme of the trigger, one
   tuple (theme, len(plist), reprs) per key in the order the keys appear *)
GroupTuples(order, phrases, by_theme) ==
    LET Key(t) == IF by_theme THEN Display(t) ELSE t
        prim == [i \in 1..Len(phrases) |-> primary_trigger(order, phrases[i])]
        triggers == FirstSeen(SelectSeq(prim, LAMBDA t : t # None))
        by_trigger(t) == SelectSeq(phrases, LAMBDA p : primary_trigger(order, p) = t)
        keys == FirstSeen([k \in 1..Len(triggers) |-> Key(triggers[k])])
        first(key) == CHOOSE k \in 1..Len(triggers) :
                         /\ Key(triggers[k]) = key
                         /\ \A m \in 1..(k - 1) : Key(triggers[m]) # key
        plist(key) == Concat([k \in 1..Len(triggers) |->
                                IF Key(triggers[k]) = key THEN by_trigger(triggers[k])
                                ELSE <<>>])
    IN [k \in 1..Len(keys) |->
          [theme |-> Display(triggers[first(keys[k])]),
           count |-> Len(plist(keys[k])),
           reprs |-> dedupe_similar(plist(keys[k]), 2, Frac(11, 20))]]

(* slip: one tuple per trigger instead of one per theme *)
ThemeTuples_by_trigger(order, phrases) == GroupTuples(order, phrases, FALSE)

(* theme_to_phrases and the list out before it is sorted *)
ThemeTuples(order, phrases) == GroupTuples(order, phrases, TRUE)

(* slip: out.sort is left out *)
summarise_pain_point_phrases_unsorted(order, phrases) ==
    IF phrases = <<>> THEN <<>> ELSE ThemeTuples(order, phrases)

(* _summarise_pain_point_phrases: out.sort(key=lambda x: -x[1]) *)
summarise_pain_point_phrases(order, phrases) ==
    IF phrases = <<>> THEN <<>>
    ELSE LET out == ThemeTuples(order, phrases)
         IN SortedDesc(out, [k \in 1..Len(out) |-> out[k].count])

SentenceBreaks == {".", "!", "?", ";"}

(* re.sub(r"[.!?;]", "\n", text) on the full-width marks *)
SubBreaks(text) ==
    [i \in 1..Len(text) |-> IF text[i] \in SentenceBreaks THEN "\n" ELSE text[i]]

(* re.sub(r"\n+", "\n", raw): every run of line breaks becomes one, worked
   out on the two halves of s and then at their joint *)
RECURSIVE CollapseNewlines(_)
CollapseNewlines(s) ==
    IF Len(s) < 2 THEN s
    ELSE LET m == Len(s) \div 2
             left == CollapseNewlines(SubSeq(s, 1, m))
             right == CollapseNewlines(SubSeq(s, m + 1, Len(s)))
         IN IF left[Len(left)] = "\n" /\ right[1] = "\n"
            THEN left \o Tail(right)
            ELSE left \o right

(* str.split(sep) *)
RECURSIVE Split(_, _)
Split(s, sep) ==
    LET hits == {i \in 1..Len(s) : s[i] = sep}
    IN IF hits = {} THEN <<s>>
       ELSE LET i == CHOOSE a \in hits : \A b \in hits : a <= b
            IN <<SubSeq(s, 1, i - 1)>> \o Split(SubSeq(s, i + 1, Len(s)), sep)

(* slip: every segment passes for a pain point *)
HasTrigger_any(s) == TRUE

(* for t in PAIN_POINT_TRIGGERS: if t in s *)
HasTrigger(s) == \E t \in PAIN_POINT_TRIGGERS : IsSubstring(t, s)

(* slip: the whole segment is the key *)
DedupKey_whole(s) == s

(* key = s[:50] *)
DedupKey(s) == Prefix(s, 50)

(* slip: the count is tested after the segment was taken *)
LimitReached_after(out, max_phrases) == Len(out) > max_phrases

(* if len(out) >= max_phrases: break *)
LimitReached(out, max_phrases) == Len(out) >= max_phrases

RECURSIVE ExtractLoop(_, _, _, _, _)
ExtractLoop(segments, k, out, seen, max_phrases) ==
    IF k > Len(segments) \/ LimitReached(out, max_phrases) THEN out
    ELSE LET s == segments[k]
             key == DedupKey(s)
         IN IF HasTrigger(s) /\ key \notin seen
            THEN ExtractLoop(segments, k + 1, Append(out, s), seen \cup {key}, max_phrases)
            ELSE ExtractLoop(segments, k + 1, out, seen, max_phrases)

(* slip: the segments are measured trimmed but kept as they were cut *)
extract_pain_point_phrases_untrimmed(text, max_phrases) ==
    IF Strip(text) = <<>> THEN <<>>
    ELSE LET raw == Strip(CollapseNewlines(SubBreaks(text)))
             segments == SelectSeq(Split(raw, "\n"), LAMBDA s : Len(Strip(s)) >= 4)
         IN ExtractLoop(segments, 1, <<>>, {}, max_phrases)

(* _extract_pain_point_phrases *)
extract_pain_point_phrases(text, max_phrases) ==
    IF Strip(text) = <<>> THEN <<>>
    ELSE LET raw == Strip(CollapseNewlines(SubBreaks(text)))
             pieces == Split(raw, "\n")
             segments == SelectSeq([i \in 1..Len(pieces) |-> Strip(pieces[i])],
                                   LAMBDA s : Len(s) >= 4)
         IN ExtractLoop(segments, 1, <<>>, {}, max_phrases)

(* val and val not in ("wu", "-", em dash) *)
HasContent(val) == val # <<>> /\ val \notin {<<"wu">>, <<"-">>, <<"emdash">>}

(* all_text_parts of tab 4, answers being the open-text cells row by row *)
AllTextParts(answers) ==
    SelectSeq([i \in 1..Len(answers) |-> Strip(answers[i])], HasContent)

(* sep.join(parts) *)
RECURSIVE Join(_, _)
Join(parts, sep) ==
    IF parts = <<>> THEN <<>>
    ELSE IF Len(parts) = 1 THEN parts[1]
    ELSE parts[1] \o <<sep>> \o Join(Tail(parts), sep)

(* the cells a sequence of fragments and marks spells *)
RECURSIVE CellsOf(_)
CellsOf(f) ==
    LET marks == {i \in 1..Len(f) : f[i] = NextCell}
    IN IF marks = {} THEN <<Concat(f)>>
       ELSE LET i == CHOOSE a \in marks : \A b \in marks : a <= b
            IN <<Concat(SubSeq(f, 1, i - 1))>> \o CellsOf(SubSeq(f, i + 1, Len(f)))

(* ---------------- session (app.py) ---------------- *)
NoFile == NoTable

(* the uploads of a session: one question column, up to MaxRows answers *)
SessionCells == {StrCell(<<" ", "always", " ">>), NumCell(3), Missing}

SessionFiles ==
    {[columns |-> << <<"x">> >>, rows |-> << <<Missing>> >>]}
    \cup UNION {{[columns |-> << <<"a">> >>, rows |-> r] :
                    r \in [1..nr -> [1..1 -> SessionCells]]} : nr \in 1..MaxRows}

NAME_COLUMNS ==
    << <<"tian", "xie", "ren">>, <<"xing", "ming">>,
       <<"xue", "yuan", "xing", "ming">> >>

(* Series.astype(str) *)
AsStr(cell) ==
    CASE cell.kind = "str" -> cell.text
      [] cell.kind = "num" -> IntToText(cell.num)
      [] cell.kind = "nan" -> <<"n", "a", "n">>

(* names: the first name column present, else xue yuan 1, xue yuan 2, ... *)
Names(table) ==
    LET hits == {k \in 1..Len(NAME_COLUMNS) : InColumns(table, NAME_COLUMNS[k])}
    IN IF hits = {}
       THEN [i \in 1..Len(table.rows) |-> <<"xue", "yuan">> \o IntToText(i)]
       ELSE LET name_col == NAME_COLUMNS[CHOOSE k \in hits : \A m \in hits : k <= m]
            IN [i \in 1..Len(table.rows) |->
                  AsStr(table.rows[i][ColIndex(table.columns, name_col)])]

NoData ==
    [df_q |-> NoTable, df_dims |-> NoTable, col_to_cat_be |-> <<>>,
     names |-> <<>>, total |-> <<>>]

(* load_and_process as a function of the upload, r being what
   clean_and_score returned: status "raised" when clean_and_score raises,
   "error" for (None, message), "ok" for (data, None) *)
LoadedData(uploaded_file, r, dims) ==
    [df_q |-> r.df_q, df_dims |-> dims, col_to_cat_be |-> r.col_to_cat_be,
     names |-> Names(uploaded_file),
     total |-> get_person_total_and_dims(r.df_q, dims).total]

LoadResult(uploaded_file, r) ==
    IF r.status = "raised" THEN [status |-> "raised", data |-> NoData]
    ELSE IF r.status = "none" \/ r.df_q.rows = <<>>
    THEN [status |-> "error", data |-> NoData]
    ELSE [status |-> "ok",
          data |-> LoadedData(uploaded_file, r,
                              compute_dimension_scores(r.df_q, r.col_to_cat_be))]

load_and_process(uploaded_file) ==
    LoadResult(uploaded_file, clean_and_score(uploaded_file))

(* what report.build is given by the PDF handler *)
BuildPdf(data) ==
    [dim_means |-> PdfDimMeans(data.df_dims),
     behavior_avgs |-> get_behavior_avg_by_dimension(data.df_q, data.col_to_cat_be),
     names |-> data.names]

BlankPage(view) ==
    [view |-> view, names |-> <<>>, df_dims |-> NoTable, total |-> <<>>,
     download |-> <<>>]

(* slip: the report is drawn without looking at the confirmation *)
RenderLoaded_nogate(r, confirmed, bytes) ==
    IF r.status = "raised" THEN BlankPage("exception")
    ELSE IF r.status = "error" THEN BlankPage("error")
    ELSE [view |-> "report", names |-> r.data.names, df_dims |-> r.data.df_dims,
          total |-> r.data.total, download |-> bytes]

(* one run of the script: st.stop() without an upload, on a load error and
   before the disclaimer is confirmed; the download button shows whatever
   st.session_state holds under "pdf_report_bytes" (a sequence of at most one
   element stands for the key being absent or present) *)
RenderLoaded(r, confirmed, bytes) ==
    IF r.status = "raised" THEN BlankPage("exception")
    ELSE IF r.status = "error" THEN BlankPage("error")
    ELSE IF ~confirmed THEN BlankPage("disclaimer")
    ELSE [view |-> "report", names |-> r.data.names, df_dims |-> r.data.df_dims,
          total |-> r.data.total, download |-> bytes]

RenderPage(file, confirmed, bytes) ==
    IF file = NoFile THEN BlankPage("upload prompt")
    ELSE RenderLoaded(load_and_process(file), confirmed, bytes)

(* ---------------- anomaly tab (app.py) ---------------- *)
(* row = df_q.loc[idx, score_cols]; valid = row.dropna() *)
RowValid(df_scores, items, i) ==
    DropNaN([k \in 1..Len(items) |-> Loc(df_scores, i, items[k].col)])

(* slip: a single answer is not taken for a uniform row *)
IsUniform_two(valid) == Len(valid) >= 2 /\ Cardinality(Range(valid)) = 1

(* len(valid) >= 1 and valid.nunique() == 1 *)
IsUniform(valid) == Len(valid) >= 1 /\ Cardinality(Range(valid)) = 1

(* for idx in df_q.index: ... anomaly_rows.append((idx, uniform_score)),
   over the first n rows *)
RECURSIVE AnomalyRows(_, _, _)
AnomalyRows(df_scores, items, n) ==
    IF n = 0 THEN <<>>
    ELSE LET init == AnomalyRows(df_scores, items, n - 1)
             valid == RowValid(df_scores, items, n)
         IN IF IsUniform(valid)
            THEN Append(init, [idx |-> n, uniform_score |-> valid[1]])
            ELSE init

(* ---------------- the report: selector, PDF handler, tabs 3 and 5 ---------------- *)
(* the uploads of the report: two question columns, one per dimension, with
   or without a name column (xing ming); a respondent answers always always,
   sometimes always or nothing *)
AnswerRows ==
    { <<StrCell(<<"always">>), StrCell(<<"always">>)>>,
      <<StrCell(<<"sometimes">>), StrCell(<<"always">>)>>,
      <<Missing, Missing>> }

NamedRows ==
    { <<StrCell(n)>> \o a :
        n \in {<<"li">>, <<"wang">>},
        a \in { <<StrCell(<<"always">>), StrCell(<<"always">>)>>, <<Missing, Missing>> } }

ReportFiles ==
    UNION {{[columns |-> << <<"a">>, <<"c">> >>, rows |-> r] :
               r \in [1..nr -> AnswerRows]} : nr \in 1..MaxPersons}
    \cup UNION {{[columns |-> << <<"xing", "ming">>, <<"a">>, <<"c">> >>, rows |-> r] :
                    r \in [1..nr -> NamedRows]} : nr \in 1..MaxPersons}

(* names.index(selected_name): the first position holding the name *)
NameIndex(names, selected_name) ==
    CHOOSE i \in 1..Len(names) :
        names[i] = selected_name /\ \A j \in 1..(i - 1) : names[j] # selected_name

(* the selection of [c for c in CATEGORY_ORDER if c in df_dims.columns] from
   row i of df_dims *)
RowDims(dims, i) ==
    LET dim_cols == SelectSeq(CATEGORY_ORDER, LAMBDA c : InColumns(dims, c))
    IN [k \in 1..Len(dim_cols) |-> dims.rows[i][ColIndex(dims.columns, dim_cols[k])]]

(* tab 3: idx = names.index(selected_name), then profile_row, row_dims and
   total_person of that row; d is the dict load_and_process returned *)
Tab3(table, d, selected_name) ==
    [idx |-> NameIndex(d.names, selected_name),
     profile_row |-> table.rows[NameIndex(d.names, selected_name)],
     row_dims |-> RowDims(d.df_dims, NameIndex(d.names, selected_name)),
     total_person |-> d.total[NameIndex(d.names, selected_name)]]

(* name_col_anom: position of the first name column present, 0 for None *)
NameColAnom(table) ==
    LET hits == {k \in 1..Len(NAME_COLUMNS) : InColumns(table, NAME_COLUMNS[k])}
    IN IF hits = {} THEN 0
       ELSE ColIndex(table.columns, NAME_COLUMNS[CHOOSE k \in hits : \A m \in hits : k <= m])

(* round(x, 2) of a float that is not missing *)
Round2(x) == Frac((200 * x.n + x.d) \div (2 * x.d), 100)

(* tab 5: rows_out, one (name, uniform value) per anomaly; the row label idx
   of pandas counts from 0, the rows of the model from 1 *)
TabAnomalyRows(table, found) ==
    [r \in 1..Len(found) |->
        [name |-> IF NameColAnom(table) # 0
                  THEN table.rows[found[r].idx][NameColAnom(table)]
                  ELSE StrCell(<<"xue", "yuan">> \o IntToText((found[r].idx - 1) + 1)),
         uniform_score |-> Round2(found[r].uniform_score)]]

(* the PDF handler: anomaly_rows.append((name, dept, uniform_score, note))
   with name = df.loc[idx, name_col_anom] if name_col_anom else str(idx) *)
PdfAnomalyRows(table, found) ==
    [r \in 1..Len(found) |->
        [name |-> IF NameColAnom(table) # 0
                  THEN table.rows[found[r].idx][NameColAnom(table)]
                  ELSE StrCell(IntToText(found[r].idx - 1)),
         uniform_score |-> found[r].uniform_score]]

(* x < y on floats: False as soon as one of them is NaN *)
FloatLess(x, y) == ~IsNaN(x) /\ ~IsNaN(y) /\ x.n * y.d < y.n * x.d

Reverse(s) == [i \in 1..Len(s) |-> s[Len(s) + 1 - i]]

(* list.sort of a short list (under 64 items), as CPython does it: count_run
   takes the run at the head, a strictly descending one is reversed, and
   binarysort inserts the other items one by one; s holds (name, score) *)
RECURSIVE RunEnd(_, _, _)
RunEnd(s, n, descending) ==
    IF n < Len(s) /\ (FloatLess(s[n + 1].score, s[n].score) <=> descending)
    THEN RunEnd(s, n + 1, descending)
    ELSE n

CountRun(s) ==
    IF Len(s) < 2 THEN [n |-> Len(s), descending |-> FALSE]
    ELSE [n |-> RunEnd(s, 2, FloatLess(s[2].score, s[1].score)),
          descending |-> FloatLess(s[2].score, s[1].score)]

(* the place of pivot among s[l..r-1], found by halving *)
RECURSIVE BinaryPos(_, _, _, _)
BinaryPos(s, pivot, l, r) ==
    IF l >= r THEN l
    ELSE IF FloatLess(pivot.score, s[l + ((r - l) \div 2)].score)
    THEN BinaryPos(s, pivot, l, l + ((r - l) \div 2))
    ELSE BinaryPos(s, pivot, l + ((r - l) \div 2) + 1, r)

InsertAt(s, start, l) ==
    SubSeq(s, 1, l - 1) \o <<s[start]>> \o SubSeq(s, l, start - 1)
        \o SubSeq(s, start + 1, Len(s))

RECURSIVE BinarySort(_, _)
BinarySort(s, start) ==
    IF start > Len(s) THEN s
    ELSE BinarySort(InsertAt(s, start, BinaryPos(s, s[start], 1, start)), start + 1)

SortRun(s, run) ==
    BinarySort(IF run.descending
               THEN Reverse(SubSeq(s, 1, run.n)) \o SubSeq(s, run.n + 1, Len(s))
               ELSE s,
               run.n + 1)

(* s.sort(key=lambda x: x[1], reverse=True): the list is reversed, sorted
   and reversed again *)
ListSortReverse(s) == Reverse(SortRun(Reverse(s), CountRun(Reverse(s))))

(* person_scores = list(zip(names, [float(total.loc[df_q.index[i]]) ...]))
   and person_scores.sort(key=lambda x: x[1], reverse=True) *)
PersonScores(d) ==
    ListSortReverse([i \in 1..(IF Len(d.names) < Len(d.df_q.rows)
                               THEN Len(d.names) ELSE Len(d.df_q.rows)) |->
                        [name |-> d.names[i], score |-> d.total[i]]])

(* person_scores[:3] *)
Top3High(person_scores) == Prefix(person_scores, 3)

(* person_scores[-3:][::-1] if len(person_scores) >= 3 else person_scores[::-1] *)
Top3Low(person_scores) ==
    IF Len(person_scores) >= 3
    THEN Reverse(SubSeq(person_scores, Len(person_scores) - 2, Len(person_scores)))
    ELSE Reverse(person_scores)

(* slip: the exception of a chart helper is not caught *)
TryChart_uncaught(renders) ==
    [buffer |-> IF renders THEN "png" ELSE "empty", raised |-> ~renders]

(* try: <chart helper>(..., buffer) except Exception: pass *)
TryChart(renders) ==
    [buffer |-> IF renders THEN "png" ELSE "empty", raised |-> FALSE]

(* the radar of the selected respondent: drawn when every dimension of
   CATEGORY_ORDER has a column (five in the program's configuration) *)
PdfRadar(d, selected_name, chart) ==
    IF Len(RowDims(d.df_dims, NameIndex(d.names, selected_name))) = Len(CATEGORY_ORDER)
       /\ chart.buffer = "png"
    THEN << [idx |-> NameIndex(d.names, selected_name),
             r_person |-> RowDims(d.df_dims, NameIndex(d.names, selected_name))] >>
    ELSE <<>>

(* what the PDF handler hands to report.build, summary and radar being the
   outcomes of the two chart helpers; an exception that no except clause
   catches ends the run of the script, and nothing is handed over *)
PdfArgs(table, d, selected_name, summary, radar) ==
    IF summary.raised \/ radar.raised THEN <<>>
    ELSE << [dim_means |-> PdfDimMeans(d.df_dims),
             behavior_avgs |-> get_behavior_avg_by_dimension(d.df_q, d.col_to_cat_be),
             summary_chart_png |-> summary.buffer,
             radar_images |-> PdfRadar(d, selected_name, radar),
             top3_high |-> Top3High(PersonScores(d)),
             top3_low |-> Top3Low(PersonScores(d)),
             anomaly_rows |->
                 PdfAnomalyRows(table, AnomalyRows(d.df_q, d.col_to_cat_be,
                                                   Len(d.df_q.rows))),
             selected_name |-> selected_name] >>

(* build_wordcloud_image: (buf, top_words, err); first_ok and second_ok tell
   whether WordCloud renders with the mask and without it *)
build_wordcloud_image(text, first_ok, second_ok) ==
    IF Strip(text) = <<>> THEN [buf |-> None, top_words |-> <<>>, err |-> None]
    ELSE IF first_ok
    THEN [buf |-> <<"png">>, top_words |-> <<"top words">>, err |-> None]
    ELSE IF second_ok
    THEN [buf |-> <<"png">>, top_words |-> <<"top words">>, err |-> None]
    ELSE [buf |-> None, top_words |-> <<>>, err |-> <<"e", ";", "e2">>]

(* ---------------- state ---------------- *)
VARIABLES
    df,              \* the RawTable read from the uploaded file
    caller,          \* the program started: "app" (load_and_process), "demo" (main)
    pc,              \* "start", "loaded", "done", "error" (reported), "raised"
    run,             \* 1 or 2: the pipeline is run twice on the same table
    cols_mapping,    \* result of find_question_columns
    df_q,            \* ScoredTable
    col_to_cat_be,   \* column -> (dimension, behavior), in insertion order
    df_dims,         \* PersonDimensionScore
    total,           \* PersonTotalScore
    dim_means,       \* population mean per dimension (overview / demo)
    pdf_dim_means,   \* population mean per dimension (PDF)
    behavior_avgs,   \* PopulationBehaviorAverage
    err,             \* what the caller reported or what was raised
    prev,            \* the outputs of the first run
    anomaly_rows,    \* (idx, uniform_score) of the anomaly tab
    TRIGGER_ORDER,   \* the module global of that name
    answers,         \* the open-text cells of open_df, row by row
    tpc,             \* tab 4: "idle", "start", "mined", "empty"
    combined_text,
    pain_phrases,
    pain_summaries,
    arg_phrases,     \* the phrases a function is called with
    arg_max_repr,
    ret_triggers,    \* _primary_trigger of each phrase
    ret_kept,        \* result of _dedupe_similar
    cpc,             \* "idle", "start", "primary", "dedupe"
    arg_text,        \* the text _extract_pain_point_phrases is called with
    arg_max_phrases,
    ret_phrases,     \* result of _extract_pain_point_phrases
    xpc,             \* "idle", "start", "done"
    rfile,           \* the table of the report, NoFile without one
    sel_pos,         \* the entry of the selector the user picked (row number)
    selected_name,   \* what st.selectbox returned
    tab3,            \* the row tab 3 shows
    tab5_rows,       \* rows_out of tab 5
    pdf_args,        \* the arguments of report.build, <<>> before the PDF is made
    wordcloud,       \* a call of build_wordcloud_image and its result
    rpc,             \* "idle", "start", "report", "pdf", "aborted", "wordcloud"
    uploaded,        \* the file in the uploader, NoFile without one
    disclaimer_confirmed,   \* st.session_state["disclaimer_confirmed"]
    pdf_report_bytes,       \* st.session_state["pdf_report_bytes"]
    page             \* what the last run of the script shows

pipevars == <<df, caller, pc, run, cols_mapping, df_q, col_to_cat_be, df_dims,
              total, dim_means, pdf_dim_means, behavior_avgs, err, prev,
              anomaly_rows>>

textvars == <<answers, tpc, combined_text, pain_phrases, pain_summaries>>

callvars == <<arg_phrases, arg_max_repr, ret_triggers, ret_kept, cpc>>

extvars == <<arg_text, arg_max_phrases, ret_phrases, xpc>>

sessvars == <<uploaded, disclaimer_confirmed, pdf_report_bytes, page>>

repvars == <<rfile, sel_pos, selected_name, tab3, tab5_rows, pdf_args, wordcloud, rpc>>

vars == <<pipevars, TRIGGER_ORDER, textvars, callvars, extvars, sessvars, repvars>>

TextIdle ==
    /\ answers = <<>>
    /\ tpc = "idle"
    /\ combined_text = <<>>
    /\ pain_phrases = <<>>
    /\ pain_summaries = <<>>

CallsIdle ==
    /\ arg_phrases = <<>>
    /\ arg_max_repr = 0
    /\ ret_triggers = <<>>
    /\ ret_kept = <<>>
    /\ cpc = "idle"

ExtractIdle ==
    /\ arg_text = <<>>
    /\ arg_max_phrases = 0
    /\ ret_phrases = <<>>
    /\ xpc = "idle"

SessionIdle ==
    /\ uploaded = NoFile
    /\ disclaimer_confirmed = FALSE
    /\ pdf_report_bytes = <<>>
    /\ page = BlankPage("idle")

ReportIdle ==
    /\ rfile = NoFile
    /\ sel_pos = 0
    /\ selected_name = <<>>
    /\ tab3 = <<>>
    /\ tab5_rows = <<>>
    /\ pdf_args = <<>>
    /\ wordcloud = <<>>
    /\ rpc = "idle"

outputs == <<pc, cols_mapping, df_q, col_to_cat_be, df_dims, total, dim_means,
             pdf_dim_means, behavior_avgs, err>>

Cleared ==
    /\ cols_mapping = <<>>
    /\ df_q = NoTable
    /\ col_to_cat_be = <<>>
    /\ df_dims = NoTable
    /\ total = <<>>
    /\ dim_means = EmptyDict
    /\ pdf_dim_means = <<>>
    /\ behavior_avgs = EmptyDict
    /\ err = ""

Init ==
    /\ \E h \in HeaderSeqs : \E nr \in RowCounts(Len(h)) :
          \E r \in [1..nr -> [1..Len(h) -> CellValues]] :
              df = [columns |-> h, rows |-> r]
    /\ caller = "none"
    /\ pc = "start"
    /\ run = 1
    /\ prev = <<>>
    /\ Cleared
    /\ anomaly_rows = <<>>
    /\ TRIGGER_ORDER = <<>>
    /\ TextIdle
    /\ CallsIdle
    /\ ExtractIdle
    /\ SessionIdle
    /\ ReportIdle

(* df.fillna(0)-like helper of the slip below *)
FillNa(table) ==
    [table EXCEPT !.rows =
        [i \in 1..Len(table.rows) |->
           [k \in 1..Len(table.columns) |->
              IF IsNaN(table.rows[i][k]) THEN Num(0) ELSE table.rows[i][k]]]]

(* slip: df_q.fillna(0, inplace=True) before the person scores *)
LoadAndProcess_inplace ==
    /\ pc = "start"
    /\ caller \in {"none", "app"}
    /\ \E r \in {clean_and_score(df)} :
       /\ caller' = "app"
       /\ cols_mapping' = r.cols_mapping
       /\ IF r.status = "raised"
          THEN /\ pc' = "raised"
               /\ err' = "AttributeError"
               /\ UNCHANGED <<df_q, col_to_cat_be, df_dims, total>>
          ELSE IF r.status = "none" \/ r.df_q.rows = <<>>
          THEN /\ pc' = "error"
               /\ err' = "no question columns recognised"
               /\ UNCHANGED <<df_q, col_to_cat_be, df_dims, total>>
          ELSE /\ pc' = "loaded"
               /\ df_q' = FillNa(r.df_q)
               /\ col_to_cat_be' = r.col_to_cat_be
               /\ df_dims' = compute_dimension_scores(df_q', col_to_cat_be')
               /\ total' = get_person_total_and_dims(df_q', df_dims').total
               /\ UNCHANGED err
       /\ UNCHANGED <<df, run, dim_means, pdf_dim_means, behavior_avgs, prev>>
       /\ UNCHANGED <<anomaly_rows, TRIGGER_ORDER, textvars, callvars, extvars, sessvars, repvars>>

(* load_and_process: clean_and_score, "if df_q is None or df_q.empty: return
   None, message", compute_dimension_scores, get_person_total_and_dims; no
   try block encloses clean_and_score *)
LoadAndProcess ==
    /\ pc = "start"
    /\ caller \in {"none", "app"}
    /\ \E r \in {clean_and_score(df)} :
       /\ caller' = "app"
       /\ cols_mapping' = r.cols_mapping
       /\ IF r.status = "raised"
          THEN /\ pc' = "raised"
               /\ err' = "AttributeError"
               /\ UNCHANGED <<df_q, col_to_cat_be, df_dims, total>>
          ELSE IF r.status = "none" \/ r.df_q.rows = <<>>
          THEN /\ pc' = "error"
               /\ err' = "no question columns recognised"
               /\ UNCHANGED <<df_q, col_to_cat_be, df_dims, total>>
          ELSE /\ pc' = "loaded"
               /\ df_q' = r.df_q
               /\ col_to_cat_be' = r.col_to_cat_be
               /\ df_dims' = compute_dimension_scores(df_q', col_to_cat_be')
               /\ total' = get_person_total_and_dims(df_q', df_dims').total
               /\ UNCHANGED err
       /\ UNCHANGED <<df, run, dim_means, pdf_dim_means, behavior_avgs, prev>>
       /\ UNCHANGED <<anomaly_rows, TRIGGER_ORDER, textvars, callvars, extvars, sessvars, repvars>>

(* the script after load_and_process: dim_means of the PDF handler and of the
   overview tab, behavior_avgs = get_behavior_avg_by_dimension(...), and
   anomaly_rows of the anomaly tab *)
PopulationAverages ==
    /\ pc = "loaded"
    /\ anomaly_rows' = AnomalyRows(df_q, col_to_cat_be, Len(df_q.rows))
    /\ dim_means' = OverviewDimMeans(df_dims)
    /\ pdf_dim_means' = PdfDimMeans(df_dims)
    /\ behavior_avgs' = get_behavior_avg_by_dimension(df_q, col_to_cat_be)
    /\ pc' = "done"
    /\ UNCHANGED <<df, caller, run, cols_mapping, df_q, col_to_cat_be, df_dims,
                   total, err, prev>>
    /\ UNCHANGED <<TRIGGER_ORDER, textvars, callvars, extvars, sessvars, repvars>>

(* main of generate_report_demo.py: "if df_q is None: print(...); return",
   then the scores, dim_means, behavior_avgs and row_index = df_q.index[0],
   which raises IndexError on a table without rows *)
DemoMain ==
    /\ pc = "start"
    /\ caller = "none"
    /\ \E r \in {clean_and_score(df)} :
       /\ caller' = "demo"
       /\ cols_mapping' = r.cols_mapping
       /\ pdf_dim_means' = <<>>
       /\ IF r.status = "raised"
          THEN /\ pc' = "raised"
               /\ err' = "AttributeError"
               /\ UNCHANGED <<df_q, col_to_cat_be, df_dims, total, dim_means,
                              behavior_avgs>>
          ELSE IF r.status = "none"
          THEN /\ pc' = "error"
               /\ err' = "parse failed"
               /\ UNCHANGED <<df_q, col_to_cat_be, df_dims, total, dim_means,
                              behavior_avgs>>
          ELSE /\ df_q' = r.df_q
               /\ col_to_cat_be' = r.col_to_cat_be
               /\ df_dims' = compute_dimension_scores(df_q', col_to_cat_be')
               /\ total' = get_person_total_and_dims(df_q', df_dims').total
               /\ dim_means' = OverviewDimMeans(df_dims')
               /\ behavior_avgs' = get_behavior_avg_by_dimension(df_q', col_to_cat_be')
               /\ IF r.df_q.rows = <<>>
                  THEN pc' = "raised" /\ err' = "IndexError"
                  ELSE pc' = "done" /\ UNCHANGED err
       /\ UNCHANGED <<df, run, prev>>
       /\ UNCHANGED <<anomaly_rows, TRIGGER_ORDER, textvars, callvars, extvars, sessvars, repvars>>

Finished == pc \in {"done", "error", "raised"}

(* the Streamlit script runs again on the same upload *)
Rerun ==
    /\ Finished
    /\ caller = "app"
    /\ run = 1
    /\ prev' = outputs
    /\ run' = 2
    /\ pc' = "start"
    /\ cols_mapping' = <<>>
    /\ df_q' = NoTable
    /\ col_to_cat_be' = <<>>
    /\ df_dims' = NoTable
    /\ total' = <<>>
    /\ dim_means' = EmptyDict
    /\ pdf_dim_means' = <<>>
    /\ behavior_avgs' = EmptyDict
    /\ err' = ""
    /\ anomaly_rows' = <<>>
    /\ UNCHANGED <<df, caller>>
    /\ UNCHANGED <<TRIGGER_ORDER, textvars, callvars, extvars, sessvars, repvars>>

Next ==
    \/ LoadAndProcess
    \/ PopulationAverages
    \/ DemoMain
    \/ Rerun

Spec == Init /\ [][Next]_vars

(* ---------------- tab 4: the open-text feedback ---------------- *)
PipelineIdle ==
    /\ df = NoTable
    /\ caller = "none"
    /\ pc = "idle"
    /\ run = 1
    /\ prev = <<>>
    /\ Cleared
    /\ anomaly_rows = <<>>

(* the process is started (TRIGGER_ORDER is computed at import) and a table
   with open-text cells is loaded *)
InitText ==
    /\ TRIGGER_ORDER \in {TriggerOrderOf(o) : o \in IterationOrders(PAIN_POINT_TRIGGERS)}
    /\ \E n \in 1..MaxFrags : \E f \in [1..n -> Fragments \cup {NextCell}] :
          answers = CellsOf(f)
    /\ tpc = "start"
    /\ combined_text = <<>>
    /\ pain_phrases = <<>>
    /\ pain_summaries = <<>>
    /\ PipelineIdle
    /\ CallsIdle
    /\ ExtractIdle
    /\ SessionIdle
    /\ ReportIdle

(* the block of tab 4: all_text_parts, combined_text = " ".join(...),
   pain_phrases, pain_summaries; nothing is mined when no cell has content *)
OpenTextTab ==
    /\ tpc = "start"
    /\ \E parts \in {AllTextParts(answers)} :
          IF parts = <<>>
          THEN /\ tpc' = "empty"
               /\ UNCHANGED <<combined_text, pain_phrases, pain_summaries>>
          ELSE /\ tpc' = "mined"
               /\ combined_text' = Join(parts, " ")
               /\ pain_phrases' = extract_pain_point_phrases(combined_text', 50)
               /\ pain_summaries' =
                     summarise_pain_point_phrases(TRIGGER_ORDER, pain_phrases')
    /\ UNCHANGED <<pipevars, TRIGGER_ORDER, answers, callvars, extvars, sessvars, repvars>>

NextText == OpenTextTab

SpecText == InitText /\ [][NextText]_vars

(* ---------------- the text functions called on their own ---------------- *)
InitCalls ==
    /\ TRIGGER_ORDER \in {TriggerOrderOf(o) : o \in IterationOrders(PAIN_POINT_TRIGGERS)}
    /\ \E n \in 1..MaxFrags : \E f \in [1..n -> Fragments \cup {NextCell}] :
          arg_phrases = CellsOf(f)
    /\ arg_max_repr = 0
    /\ ret_triggers = <<>>
    /\ ret_kept = <<>>
    /\ cpc = "start"
    /\ PipelineIdle
    /\ TextIdle
    /\ ExtractIdle
    /\ SessionIdle
    /\ ReportIdle

CallPrimaryTrigger ==
    /\ cpc = "start"
    /\ cpc' = "primary"
    /\ ret_triggers' = [i \in 1..Len(arg_phrases) |->
                           primary_trigger(TRIGGER_ORDER, arg_phrases[i])]
    /\ UNCHANGED <<pipevars, TRIGGER_ORDER, textvars, extvars, sessvars, repvars>>
    /\ UNCHANGED <<arg_phrases, arg_max_repr, ret_kept>>

(* _dedupe_similar(phrases, max_repr) with the default threshold 0.6 *)
CallDedupeSimilar ==
    /\ cpc = "start"
    /\ cpc' = "dedupe"
    /\ \E m \in 0..MaxRepr :
          /\ arg_max_repr' = m
          /\ ret_kept' = dedupe_similar(arg_phrases, m, Frac(3, 5))
    /\ UNCHANGED <<pipevars, TRIGGER_ORDER, textvars, extvars, sessvars, repvars>>
    /\ UNCHANGED <<arg_phrases, ret_triggers>>

NextCalls ==
    \/ CallPrimaryTrigger
    \/ CallDedupeSimilar

SpecCalls == InitCalls /\ [][NextCalls]_vars

(* ---------------- the extraction called on its own ---------------- *)
(* the process of the call is one of those the import can produce: the
   extraction reads the set of triggers, never TRIGGER_ORDER *)
InitExtract ==
    /\ TRIGGER_ORDER =
          TriggerOrderOf(CHOOSE o \in IterationOrders(PAIN_POINT_TRIGGERS) : TRUE)
    /\ \E n \in 1..MaxFrags : \E f \in [1..n -> Sentences] :
          arg_text = Concat(f)
    /\ arg_max_phrases = 0
    /\ ret_phrases = <<>>
    /\ xpc = "start"
    /\ PipelineIdle
    /\ TextIdle
    /\ CallsIdle
    /\ SessionIdle
    /\ ReportIdle

(* _extract_pain_point_phrases(text, max_phrases) *)
CallExtractPhrases ==
    /\ xpc = "start"
    /\ xpc' = "done"
    /\ \E m \in 0..MaxPhrases :
          /\ arg_max_phrases' = m
          /\ ret_phrases' = extract_pain_point_phrases(arg_text, m)
    /\ UNCHANGED <<pipevars, TRIGGER_ORDER, textvars, callvars, sessvars, repvars>>
    /\ UNCHANGED arg_text

NextExtract == CallExtractPhrases

SpecExtract == InitExtract /\ [][NextExtract]_vars

(* ---------------- one browser session ---------------- *)
(* the page before any upload (no default table lies next to the script) *)
InitSession ==
    /\ uploaded = NoFile
    /\ disclaimer_confirmed = FALSE
    /\ pdf_report_bytes = <<>>
    /\ page = BlankPage("upload prompt")
    /\ TRIGGER_ORDER = <<>>
    /\ PipelineIdle
    /\ TextIdle
    /\ CallsIdle
    /\ ExtractIdle
    /\ ReportIdle

(* a file is put into the uploader and the script runs *)
Upload ==
    /\ \E f \in SessionFiles :
          /\ f # uploaded
          /\ uploaded' = f
          /\ page' = RenderPage(f, disclaimer_confirmed, pdf_report_bytes)
    /\ UNCHANGED <<disclaimer_confirmed, pdf_report_bytes>>
    /\ UNCHANGED <<pipevars, TRIGGER_ORDER, textvars, callvars, extvars, repvars>>

(* the file is taken out of the uploader *)
ClearUpload ==
    /\ uploaded # NoFile
    /\ uploaded' = NoFile
    /\ page' = RenderPage(NoFile, disclaimer_confirmed, pdf_report_bytes)
    /\ UNCHANGED <<disclaimer_confirmed, pdf_report_bytes>>
    /\ UNCHANGED <<pipevars, TRIGGER_ORDER, textvars, callvars, extvars, repvars>>

(* the confirm button of the disclaimer, then st.rerun() *)
ConfirmDisclaimer ==
    /\ page.view = "disclaimer"
    /\ disclaimer_confirmed' = TRUE
    /\ page' = RenderPage(uploaded, TRUE, pdf_report_bytes)
    /\ UNCHANGED <<uploaded, pdf_report_bytes>>
    /\ UNCHANGED <<pipevars, TRIGGER_ORDER, textvars, callvars, extvars, repvars>>

(* the "generate PDF" button: the run stores the bytes in the session state
   and then draws the download button *)
GeneratePdf ==
    /\ page.view = "report"
    /\ pdf_report_bytes' = <<BuildPdf(load_and_process(uploaded).data)>>
    /\ page' = RenderPage(uploaded, disclaimer_confirmed, pdf_report_bytes')
    /\ UNCHANGED <<uploaded, disclaimer_confirmed>>
    /\ UNCHANGED <<pipevars, TRIGGER_ORDER, textvars, callvars, extvars, repvars>>

NextSession ==
    \/ Upload
    \/ ClearUpload
    \/ ConfirmDisclaimer
    \/ GeneratePdf

SpecSession == InitSession /\ [][NextSession]_vars

(* ---------------- the report of one upload ---------------- *)
(* a table is uploaded and the disclaimer confirmed *)
InitReport ==
    /\ rfile \in ReportFiles
    /\ sel_pos = 0
    /\ selected_name = <<>>
    /\ tab3 = <<>>
    /\ tab5_rows = <<>>
    /\ pdf_args = <<>>
    /\ wordcloud = <<>>
    /\ rpc = "start"
    /\ TRIGGER_ORDER = <<>>
    /\ PipelineIdle
    /\ TextIdle
    /\ CallsIdle
    /\ ExtractIdle
    /\ SessionIdle

(* the tabs of one run of the script, d being load_and_process(rfile).data *)
ShowTabs(d, name) ==
    /\ tab3' = <<Tab3(rfile, d, name)>>
    /\ tab5_rows' = TabAnomalyRows(rfile, AnomalyRows(d.df_q, d.col_to_cat_be,
                                                       Len(d.df_q.rows)))

(* the first run that reaches the report: the selector shows its first entry *)
OpenReport ==
    /\ rpc = "start"
    /\ rpc' = "report"
    /\ \E d \in {load_and_process(rfile).data} :
          /\ sel_pos' = 1
          /\ selected_name' = d.names[1]
          /\ ShowTabs(d, d.names[1])
    /\ UNCHANGED <<rfile, pdf_args, wordcloud>>
    /\ UNCHANGED <<pipevars, TRIGGER_ORDER, textvars, callvars, extvars, sessvars>>

(* the user picks the entry of row i in the selector and the script runs *)
SelectRespondent ==
    /\ rpc = "report"
    /\ \E d \in {load_and_process(rfile).data} :
          \E i \in 1..Len(d.names) :
              /\ i # sel_pos
              /\ sel_pos' = i
              /\ selected_name' = d.names[i]
              /\ ShowTabs(d, d.names[i])
    /\ UNCHANGED <<rfile, pdf_args, wordcloud, rpc>>
    /\ UNCHANGED <<pipevars, TRIGGER_ORDER, textvars, callvars, extvars, sessvars>>

(* the "generate PDF" button: the handler, in which either chart helper may
   raise, and then the tabs *)
GeneratePdfReport ==
    /\ rpc = "report"
    /\ \E d \in {load_and_process(rfile).data} :
          \E summary_ok, radar_ok \in BOOLEAN :
              \E args \in {PdfArgs(rfile, d, selected_name, TryChart(summary_ok),
                                   TryChart(radar_ok))} :
                  /\ pdf_args' = args
                  /\ IF args = <<>>
                     THEN rpc' = "aborted" /\ UNCHANGED <<tab3, tab5_rows>>
                     ELSE rpc' = "pdf" /\ ShowTabs(d, selected_name)
    /\ UNCHANGED <<rfile, sel_pos, selected_name, wordcloud>>
    /\ UNCHANGED <<pipevars, TRIGGER_ORDER, textvars, callvars, extvars, sessvars>>

(* build_wordcloud_image(text, ...) called on a text; the rendering backend
   may fail with the mask, and again without it *)
CallBuildWordcloud ==
    /\ rpc = "start"
    /\ rpc' = "wordcloud"
    /\ \E text \in {<<>>, <<" ">>, <<"gou", "tong", "bu", "zu">>} :
          \E first_ok, second_ok \in BOOLEAN :
              wordcloud' = << [text |-> text, first_ok |-> first_ok,
                               second_ok |-> second_ok,
                               result |-> build_wordcloud_image(text, first_ok,
                                                                second_ok)] >>
    /\ UNCHANGED <<rfile, sel_pos, selected_name, tab3, tab5_rows, pdf_args>>
    /\ UNCHANGED <<pipevars, TRIGGER_ORDER, textvars, callvars, extvars, sessvars>>

NextReport ==
    \/ OpenReport
    \/ SelectRespondent
    \/ GeneratePdfReport
    \/ CallBuildWordcloud

SpecReport == InitReport /\ [][NextReport]_vars

(* ---------------- the two pipelines on one dataset ---------------- *)
(* the open-text cell of a respondent: empty, a complaint, the word "nan" in
   Latin letters, a padded sentence *)
OpenCells ==
    { Missing,
      StrCell(<<"gou", "tong", "bu", "zu", ".">>),
      StrCell(<<"n", "a", "n">>),
      StrCell(<<" ", "hen", "nan", "hen", "da", "\n">>) }

(* fillna("wu").astype(str).replace("nan", "wu") of an open column *)
OpenTexts(cells) ==
    [i \in 1..Len(cells) |->
        IF cells[i].kind = "nan" \/ cells[i].text = <<"n", "a", "n">>
        THEN <<"wu">> ELSE cells[i].text]

RECURSIVE FfillAt(_, _)
FfillAt(cells, i) ==
    IF cells[i].kind # "nan" THEN cells[i]
    ELSE IF i = 1 THEN cells[i] ELSE FfillAt(cells, i - 1)

(* slip: the open column is filled from the row above before the fill value *)
FillOpen_ffill(cells) ==
    [i \in 1..Len(cells) |->
        StrCell(OpenTexts([k \in 1..Len(cells) |-> FfillAt(cells, k)])[i])]

(* df[col] = df[col].fillna("wu").astype(str).replace("nan", "wu"): the open
   column of the loaded table is overwritten *)
FillOpen(cells) ==
    [i \in 1..Len(cells) |-> StrCell(OpenTexts(cells)[i])]

(* a dataset is uploaded: df holds its question columns (a respondent answers
   always to both or to none), answers its open column, a cell per
   respondent; TRIGGER_ORDER was computed at import *)
InitInterleave ==
    /\ TRIGGER_ORDER \in {TriggerOrderOf(o) : o \in IterationOrders(PAIN_POINT_TRIGGERS)}
    /\ \E nr \in 1..MaxRows :
          \E q \in [1..nr -> {w \in AnswerRows : w[1] = w[2]}] :
             \E a \in [1..nr -> OpenCells] :
                /\ df = [columns |-> << <<"a">>, <<"c">> >>, rows |-> q]
                /\ answers = a
    /\ caller = "none"
    /\ pc = "start"
    /\ run = 1
    /\ prev = <<>>
    /\ Cleared
    /\ anomaly_rows = <<>>
    /\ tpc = "start"
    /\ combined_text = <<>>
    /\ pain_phrases = <<>>
    /\ pain_summaries = <<>>
    /\ CallsIdle
    /\ ExtractIdle
    /\ SessionIdle
    /\ ReportIdle

(* load_and_process on a table with an open column: the scores, and the open
   column filled in place before the dict is returned *)
LoadAndProcessOpen ==
    /\ pc = "start"
    /\ caller \in {"none", "app"}
    /\ \E r \in {clean_and_score(df)} :
       /\ caller' = "app"
       /\ cols_mapping' = r.cols_mapping
       /\ IF r.status = "raised"
          THEN /\ pc' = "raised"
               /\ err' = "AttributeError"
               /\ UNCHANGED <<df_q, col_to_cat_be, df_dims, total, answers>>
          ELSE IF r.status = "none" \/ r.df_q.rows = <<>>
          THEN /\ pc' = "error"
               /\ err' = "no question columns recognised"
               /\ UNCHANGED <<df_q, col_to_cat_be, df_dims, total, answers>>
          ELSE /\ pc' = "loaded"
               /\ df_q' = r.df_q
               /\ col_to_cat_be' = r.col_to_cat_be
               /\ df_dims' = compute_dimension_scores(df_q', col_to_cat_be')
               /\ total' = get_person_total_and_dims(df_q', df_dims').total
               /\ answers' = FillOpen(answers)
               /\ UNCHANGED err
       /\ UNCHANGED <<df, run, dim_means, pdf_dim_means, behavior_avgs, prev>>
       /\ UNCHANGED <<anomaly_rows, TRIGGER_ORDER, tpc, combined_text, pain_phrases,
                      pain_summaries, callvars, extvars, sessvars, repvars>>

(* tab 4, first step: open_df is a copy of the open column, filled; the cells
   with content are joined *)
CombineText ==
    /\ tpc = "start"
    /\ \E parts \in {AllTextParts(OpenTexts(answers))} :
          IF parts = <<>>
          THEN tpc' = "empty" /\ UNCHANGED combined_text
          ELSE tpc' = "combined" /\ combined_text' = Join(parts, " ")
    /\ UNCHANGED <<pain_phrases, pain_summaries>>
    /\ UNCHANGED <<pipevars, TRIGGER_ORDER, answers, callvars, extvars, sessvars, repvars>>

(* tab 4, second step: pain_phrases *)
ExtractPhrases ==
    /\ tpc = "combined"
    /\ pain_phrases' = extract_pain_point_phrases(combined_text, 50)
    /\ tpc' = "extracted"
    /\ UNCHANGED <<combined_text, pain_summaries>>
    /\ UNCHANGED <<pipevars, TRIGGER_ORDER, answers, callvars, extvars, sessvars, repvars>>

(* tab 4, third step: pain_summaries *)
SummarisePhrases ==
    /\ tpc = "extracted"
    /\ pain_summaries' = summarise_pain_point_phrases(TRIGGER_ORDER, pain_phrases)
    /\ tpc' = "mined"
    /\ UNCHANGED <<combined_text, pain_phrases>>
    /\ UNCHANGED <<pipevars, TRIGGER_ORDER, answers, callvars, extvars, sessvars, repvars>>

NextInterleave ==
    \/ LoadAndProcessOpen
    \/ PopulationAverages
    \/ CombineText
    \/ ExtractPhrases
    \/ SummarisePhrases

SpecInterleave == InitInterleave /\ [][NextInterleave]_vars

(* ---------------- helpers of the properties ---------------- *)
Keyword(e) == QUESTION_MAPPING[e].keyword

Entries == 1..Len(QUESTION_MAPPING)

Matches(e, header) == IsSubstring(Keyword(e), Strip(header))

AnyKeywordMatches ==
    \E e \in Entries : \E j \in 1..Len(df.columns) : Matches(e, df.columns[j])

Scored == pc \in {"loaded", "done"}

(* the aggregation functions were run (the demo may fail after them) *)
Aggregated == Scored \/ (pc = "raised" /\ err = "IndexError")

TagOf(col) == col_to_cat_be[CHOOSE k \in 1..Len(col_to_cat_be) : col_to_cat_be[k].col = col]

RawCell(i, k) == df.rows[i][ColIndex(df.columns, df_q.columns[k])]

TrimmedIsLabel(cell) ==
    /\ cell.kind = "str"
    /\ \E l \in DOMAIN SCORE_MAP : Strip(cell.text) = <<l>>

RECURSIVE SumOver(_, _)
SumOver(S, f) ==
    IF S = {} THEN Num(0)
    ELSE LET x == CHOOSE y \in S : TRUE IN FAdd(f[x], SumOver(S \ {x}, f))

(* v is the arithmetic mean of f over S, and NaN when S is empty *)
IsMeanOver(v, S, f) ==
    IF S = {} THEN IsNaN(v)
    ELSE LET t == SumOver(S, f)
         IN ~IsNaN(v) /\ v.n * t.d * Cardinality(S) = t.n * v.d

(* C1: every value of the ScoredTable is NaN or one of the integers 1..5 *)
C1_ScoredValuesInScale ==
    \A i \in 1..Len(df_q.rows) : \A k \in 1..Len(df_q.columns) :
        LET v == df_q.rows[i][k]
        IN IsNaN(v) \/ (v.d = 1 /\ v.n \in 1..5)

(* C2: a matched cell whose trimmed value is not a ScoreMap label is NaN in
   the ScoredTable (and so takes part in no mean), and nothing is raised *)
C2_UnrecognisedIsMissing ==
    Scored =>
        \A i \in 1..Len(df_q.rows) : \A k \in 1..Len(df_q.columns) :
            ~TrimmedIsLabel(RawCell(i, k)) => IsNaN(df_q.rows[i][k])

FirstEntryFor(header) ==
    CHOOSE e \in Entries :
        Matches(e, header) /\ \A f \in 1..(e - 1) : ~Matches(f, header)

(* C3 as stated: a matched column carries the tag of the first catalog entry
   whose keyword occurs in its header *)
C3_FirstKeywordWins ==
    \A k \in 1..Len(col_to_cat_be) :
        LET it == col_to_cat_be[k]
            q == QUESTION_MAPPING[FirstEntryFor(it.col)]
        IN it.category = q.category /\ it.behavior = q.behavior

BindersOf(col) ==
    {e \in Entries : FirstMatch(df.columns, Keyword(e)) = ColIndex(df.columns, col)}

(* C3 amended: a column of the returned mapping carries the tag of the one
   catalog entry that bound it, that is, the entry for whose keyword it is the
   first column of the table containing the keyword *)
C3_TagOfBindingEntry ==
    \A k \in 1..Len(col_to_cat_be) :
        LET it == col_to_cat_be[k]
        IN /\ Cardinality(BindersOf(it.col)) = 1
           /\ \A e \in BindersOf(it.col) :
                /\ it.category = QUESTION_MAPPING[e].category
                /\ it.behavior = QUESTION_MAPPING[e].behavior

C3_Witness ==
    /\ pc = "loaded"
    /\ \E k \in 1..Len(col_to_cat_be) :
          col_to_cat_be[k].category #
              QUESTION_MAPPING[FirstEntryFor(col_to_cat_be[k].col)].category

BoundEntries == {e \in Entries : \E j \in 1..Len(df.columns) : Matches(e, df.columns[j])}

NthBound(k) == CHOOSE e \in BoundEntries : Cardinality({f \in BoundEntries : f < e}) = k - 1

(* C4: find_question_columns lists, in declaration order, exactly the entries
   whose keyword occurs in some trimmed header, each with the first such
   column in table order; the ScoredTable holds no column bound by no entry *)
C4_BindsFirstColumnPerEntry ==
    pc # "start" =>
        /\ Len(cols_mapping) = Cardinality(BoundEntries)
        /\ \A k \in 1..Len(cols_mapping) :
              LET e == NthBound(k)
                  cands == {j \in 1..Len(df.columns) : Matches(e, df.columns[j])}
              IN /\ cols_mapping[k].category = QUESTION_MAPPING[e].category
                 /\ cols_mapping[k].behavior = QUESTION_MAPPING[e].behavior
                 /\ \E j \in cands :
                       /\ \A m \in cands : j <= m
                       /\ cols_mapping[k].col = df.columns[j]
        /\ \A j \in 1..Len(df.columns) :
              (\A k \in 1..Len(cols_mapping) : cols_mapping[k].col # df.columns[j])
                  => ~InColumns(df_q, df.columns[j])

C4_Witness ==
    /\ pc = "loaded"
    /\ \E e \in Entries : e \notin BoundEntries
    /\ \E j \in 1..Len(df.columns) : ~InColumns(df_q, df.columns[j])
    /\ \E e \in BoundEntries :
          Cardinality({j \in 1..Len(df.columns) : Matches(e, df.columns[j])}) > 1

(* C5: the caller reports the no-matching-columns failure exactly when no
   catalog keyword occurs in any header, and then runs no aggregation step;
   when some keyword matches, aggregation proceeds *)
C5_NoMatchFailureExactly ==
    pc # "start" =>
        /\ (pc = "error") <=> ~AnyKeywordMatches
        /\ pc = "error" => df_dims = NoTable /\ total = <<>>
        /\ AnyKeywordMatches => Aggregated

Categories == {col_to_cat_be[k].category : k \in 1..Len(col_to_cat_be)}

RowIds == 1..Len(df_q.rows)

(* the scored columns of row i tagged with category c that are not missing *)
Answered(i, c) ==
    {k \in 1..Len(df_q.columns) :
        TagOf(df_q.columns[k]).category = c /\ ~IsNaN(df_q.rows[i][k])}

DimScore(i, c) == df_dims.rows[i][ColIndex(df_dims.columns, c)]

(* C6: PersonDimensionScore is the mean of the respondent's non-missing
   columns of the dimension, and NaN when there is none *)
C6_DimensionMean ==
    Scored =>
        \A i \in RowIds : \A c \in Categories :
            /\ InColumns(df_dims, c)
            /\ IsMeanOver(DimScore(i, c), Answered(i, c), df_q.rows[i])

C6_Witness ==
    /\ pc = "loaded"
    /\ \E i \in RowIds : \E c, c2 \in Categories :
          /\ Answered(i, c) = {}
          /\ IsNaN(DimScore(i, c))
          /\ Cardinality(Answered(i, c2)) = 2
          /\ \E k \in 1..Len(df_q.columns) : IsNaN(df_q.rows[i][k])

(* C7: PersonTotalScore is the flat mean of all non-missing scored values of
   the respondent, whatever the dimension scores are *)
C7_FlatTotal ==
    Scored =>
        /\ Len(total) = Len(df_q.rows)
        /\ \A i \in RowIds :
              IsMeanOver(total[i],
                         {k \in 1..Len(df_q.columns) : ~IsNaN(df_q.rows[i][k])},
                         df_q.rows[i])

(* a respondent whose total differs from the mean of the dimension means *)
C7_Witness ==
    /\ pc = "loaded"
    /\ \E i \in RowIds :
          /\ ~IsNaN(total[i])
          /\ total[i] # NanMean(df_dims.rows[i])

TaggedCells(c, b) ==
    {ik \in RowIds \X (1..Len(df_q.columns)) :
        /\ TagOf(df_q.columns[ik[2]]).category = c
        /\ TagOf(df_q.columns[ik[2]]).behavior = b
        /\ ~IsNaN(df_q.rows[ik[1]][ik[2]])}

CellValue == [ik \in RowIds \X (1..Len(df_q.columns)) |-> df_q.rows[ik[1]][ik[2]]]

(* C8: PopulationBehaviorAverage has one entry per (dimension, behavior) of
   the mapping, the NaN-skipping mean of the values of every column tagged
   with that pair *)
C8_BehaviorMeanOfAllColumns ==
    pc = "done" =>
        /\ DOMAIN behavior_avgs = Categories
        /\ \A k \in 1..Len(col_to_cat_be) :
              LET c == col_to_cat_be[k].category
                  b == col_to_cat_be[k].behavior
              IN /\ b \in DOMAIN behavior_avgs[c]
                 /\ IsMeanOver(behavior_avgs[c][b], TaggedCells(c, b), CellValue)

Defined(c) == {i \in 1..Len(df_dims.rows) : ~IsNaN(DimScore(i, c))}

DimColumn(c) == [i \in 1..Len(df_dims.rows) |-> DimScore(i, c)]

(* C9: the population mean of a dimension is the mean of PersonDimensionScore
   over the respondents for whom it is defined *)
C9_PopulationDimMean ==
    pc = "done" =>
        /\ \A c \in DOMAIN dim_means :
              IsMeanOver(dim_means[c], Defined(c), DimColumn(c))
        /\ \A k \in 1..Len(pdf_dim_means) :
              IsMeanOver(pdf_dim_means[k].mean, Defined(pdf_dim_means[k].dim),
                         DimColumn(pdf_dim_means[k].dim))
        /\ df_dims.rows # <<>> => DOMAIN dim_means = Categories
        /\ caller = "app" =>
              {pdf_dim_means[k].dim : k \in 1..Len(pdf_dim_means)} = DOMAIN dim_means

C9_Witness ==
    /\ pc = "done"
    /\ caller = "app"
    /\ \E c \in DOMAIN dim_means :
          /\ Defined(c) # {}
          /\ \E i \in 1..Len(df_dims.rows) : i \notin Defined(c)
          /\ \E k \in 1..Len(pdf_dim_means) : pdf_dim_means[k].dim = c

(* C10: the second run on the same RawTable ends with the outputs of the
   first; no step changes the RawTable, and after the aggregation functions
   the ScoredTable and the column tags are still the ones clean_and_score
   returned *)
C10_RerunIdentical ==
    /\ [](run = 2 /\ Finished => outputs = prev)
    /\ [](Scored => /\ df_q = clean_and_score(df).df_q
                    /\ col_to_cat_be = clean_and_score(df).col_to_cat_be)
    /\ [][df' = df]_vars

C10_Witness ==
    /\ run = 2
    /\ pc = "done"
    /\ Len(df_q.rows) = 2
    /\ \E i \in RowIds : \E k \in 1..Len(df_q.columns) : IsNaN(df_q.rows[i][k])

(* ---------------- the anomaly tab ---------------- *)
NonMissing(i) ==
    {v \in {df_q.rows[i][k] : k \in 1..Len(df_q.columns)} : ~IsNaN(v)}

(* answers 4 - -, 5 5 5, 3 3 4 and - - - of four respondents *)
ExampleScores ==
    [columns |-> << <<"q1">>, <<"q2">>, <<"q3">> >>,
     rows |-> << <<Num(4), NaN, NaN>>, <<Num(5), Num(5), Num(5)>>,
                 <<Num(3), Num(3), Num(4)>>, <<NaN, NaN, NaN>> >>]

ExampleItems ==
    [k \in 1..3 |-> [col |-> ExampleScores.columns[k], category |-> "D1",
                     behavior |-> "B1"]]

(* C11: the anomaly tab lists, in row order, exactly the respondents whose
   non-missing scored values are at least one and all equal, each with that
   value; 4 alone and 5 5 5 are flagged with 4.0 and 5.0, 3 3 4 and a row
   without answers are not *)
C11_AnomalyExactlyUniform ==
    /\ (pc = "done" /\ caller = "app") =>
          /\ \A r \in 1..Len(anomaly_rows) :
                /\ anomaly_rows[r].idx \in RowIds
                /\ NonMissing(anomaly_rows[r].idx) = {anomaly_rows[r].uniform_score}
          /\ \A i \in RowIds :
                Cardinality(NonMissing(i)) = 1 =>
                    \E r \in 1..Len(anomaly_rows) : anomaly_rows[r].idx = i
          /\ \A r, q \in 1..Len(anomaly_rows) :
                r < q => anomaly_rows[r].idx < anomaly_rows[q].idx
    /\ AnomalyRows(ExampleScores, ExampleItems, 4) =
          << [idx |-> 1, uniform_score |-> Num(4)],
             [idx |-> 2, uniform_score |-> Num(5)] >>

(* a respondent flagged on a single answer next to one with two different
   answers, who is not flagged *)
C11_Witness ==
    /\ pc = "done"
    /\ caller = "app"
    /\ Len(df_q.columns) = 2
    /\ \E r \in 1..Len(anomaly_rows) :
          \E k \in 1..2 : IsNaN(df_q.rows[anomaly_rows[r].idx][k])
    /\ \E i \in RowIds :
          /\ Cardinality(NonMissing(i)) = 2
          /\ \A r \in 1..Len(anomaly_rows) : anomaly_rows[r].idx # i

(* ---------------- the open-text feedback ---------------- *)
IsBreak(c) == c \in SentenceBreaks \cup {"\n"}

(* the stretch of t from position i up to the next break or the end *)
SegmentAt(t, i) ==
    LET stops == {j \in i..(Len(t) + 1) : j = Len(t) + 1 \/ IsBreak(t[j])}
    IN SubSeq(t, i, (CHOOSE j \in stops : \A m \in stops : j <= m) - 1)

IsCandidate(x) ==
    Len(x) >= 4 /\ \E u \in PAIN_POINT_TRIGGERS : IsSubstring(u, x)

(* the trimmed segments of t that are candidates and start at one of the
   positions lo..hi *)
RECURSIVE CandidatesIn(_, _, _)
CandidatesIn(t, lo, hi) ==
    IF lo > hi THEN <<>>
    ELSE IF lo = hi
    THEN (IF (lo = 1 \/ IsBreak(t[lo - 1])) /\ IsCandidate(Strip(SegmentAt(t, lo)))
          THEN <<Strip(SegmentAt(t, lo))>> ELSE <<>>)
    ELSE CandidatesIn(t, lo, (lo + hi) \div 2)
         \o CandidatesIn(t, (lo + hi) \div 2 + 1, hi)

(* the trimmed segments of t that are candidates, from position i on *)
CandidatesFrom(t, i) == CandidatesIn(t, i, Len(t) + 1)

(* the first phrase of each 50-character prefix *)
RECURSIVE DistinctByPrefix(_)
DistinctByPrefix(c) ==
    IF c = <<>> THEN <<>>
    ELSE LET init == DistinctByPrefix(SubSeq(c, 1, Len(c) - 1))
             x == c[Len(c)]
         IN IF \E k \in 1..Len(init) : Prefix(init[k], 50) = Prefix(x, 50)
            THEN init ELSE Append(init, x)

(* gou tong bu zu, xu yao ti sheng. shi jian bu gou, ya li hen da! *)
ExampleText ==
    <<"gou", "tong", "bu", "zu", ",", "xu", "yao", "ti", "sheng", ".",
      "shi", "jian", "bu", "gou4", ",", "ya", "li", "hen", "da", "!">>

(* C12: the phrases extracted from a text are, in their order in the text,
   its segments between sentence marks and line breaks, trimmed, of four
   characters or more and holding a trigger, one per 50-character prefix and
   at most max_phrases of them; the example text gives its two sentences *)
C12_ExtractsQualifyingSegments ==
    /\ tpc = "mined" =>
          pain_phrases =
              Prefix(DistinctByPrefix(CandidatesFrom(combined_text, 1)), 50)
    /\ extract_pain_point_phrases(ExampleText, 30) =
          << SubSeq(ExampleText, 1, 9), SubSeq(ExampleText, 11, 19) >>

(* two phrases are extracted and a third, non-blank segment is dropped *)
C12_Witness ==
    /\ tpc = "mined"
    /\ Len(pain_phrases) = 2
    /\ pain_phrases[1] # pain_phrases[2]
    /\ \E i \in 1..Len(combined_text) :
          /\ i = 1 \/ IsBreak(combined_text[i - 1])
          /\ Strip(SegmentAt(combined_text, i)) # <<>>
          /\ \A k \in 1..2 : pain_phrases[k] # Strip(SegmentAt(combined_text, i))

(* C13: every extracted phrase is a part of one single answer; none spans
   the answers of two respondents or of two open-text columns *)
C13_PhraseWithinOneAnswer ==
    \A k \in 1..Len(pain_phrases) :
        \E a \in 1..Len(answers) : IsSubstring(pain_phrases[k], answers[a])

Occurring(p) == {u \in PAIN_POINT_TRIGGERS : IsSubstring(u, p)}

(* C14: _primary_trigger returns a trigger that occurs in the phrase and than
   which no occurring trigger is longer, and None exactly when none occurs *)
C14_PrimaryIsLongestOccurring ==
    cpc = "primary" =>
        \A i \in 1..Len(arg_phrases) :
            LET t == ret_triggers[i]
                occ == Occurring(arg_phrases[i])
            IN /\ (t = None) <=> (occ = {})
               /\ occ # {} => /\ t \in occ
                              /\ \A u \in occ : Len(u) <= Len(t)

(* one phrase without a trigger, one holding triggers of different lengths *)
C14_Witness ==
    /\ cpc = "primary"
    /\ \E i \in 1..Len(arg_phrases) :
          arg_phrases[i] # <<>> /\ ret_triggers[i] = None
    /\ \E i \in 1..Len(arg_phrases) :
          \E u, w \in Occurring(arg_phrases[i]) : Len(u) < Len(w)

(* the triggers in the order the table declares them *)
DeclaredTriggers ==
    << <<"nan">>, <<"xi", "wang">>, <<"bu", "zhi", "dao">>, <<"shi", "jian">>,
       <<"gou", "tong">> >>

(* C15: in every run the primary trigger of a phrase and the summary are the
   ones given by the triggers in descending length, equal lengths in declared
   order *)
C15_ReproducibleClassification ==
    tpc = "mined" =>
        /\ \A k \in 1..Len(pain_phrases) :
              primary_trigger(TRIGGER_ORDER, pain_phrases[k]) =
                  primary_trigger(TriggerOrderOf(DeclaredTriggers), pain_phrases[k])
        /\ pain_summaries =
              summarise_pain_point_phrases(TriggerOrderOf(DeclaredTriggers),
                                           pain_phrases)

ThemeOf(p) == Display(primary_trigger(TRIGGER_ORDER, p))

(* the positions of the extracted phrases classified under theme *)
Members(theme) ==
    {i \in 1..Len(pain_phrases) :
        /\ primary_trigger(TRIGGER_ORDER, pain_phrases[i]) # None
        /\ ThemeOf(pain_phrases[i]) = theme}

FirstPos(theme) == CHOOSE i \in Members(theme) : \A j \in Members(theme) : i <= j

(* C16: the summaries come in non-increasing count, the count being the
   number of phrases of the theme before deduplication; themes of equal count
   come in the order of their first phrase; none has over two representatives *)
C16_SortedByCountThenFirstSeen ==
    tpc = "mined" =>
        \A k \in 1..Len(pain_summaries) :
            /\ pain_summaries[k].count = Cardinality(Members(pain_summaries[k].theme))
            /\ pain_summaries[k].count >= 1
            /\ Len(pain_summaries[k].reprs) <= 2
            /\ \A l \in (k + 1)..Len(pain_summaries) :
                  \/ pain_summaries[k].count > pain_summaries[l].count
                  \/ /\ pain_summaries[k].count = pain_summaries[l].count
                     /\ FirstPos(pain_summaries[k].theme) <
                            FirstPos(pain_summaries[l].theme)

(* a theme met later comes first for its greater count *)
C16_Witness ==
    /\ tpc = "mined"
    /\ Len(pain_summaries) = 2
    /\ pain_summaries[1].count = 2
    /\ pain_summaries[2].count = 1
    /\ FirstPos(pain_summaries[2].theme) < FirstPos(pain_summaries[1].theme)

Eligible == {i \in 1..Len(arg_phrases) : Len(Strip(arg_phrases[i])) >= 3}

(* C17: _dedupe_similar returns at most max_repr phrases, each the trimmed
   form, three characters or longer, of an input phrase; the first one is the
   trimmed form of a longest input phrase among those that keep three
   characters after trimming *)
C17_DedupeBounded ==
    cpc = "dedupe" =>
        /\ Len(ret_kept) <= arg_max_repr
        /\ \A k \in 1..Len(ret_kept) :
              /\ Len(ret_kept[k]) >= 3
              /\ \E i \in Eligible : ret_kept[k] = Strip(arg_phrases[i])
        /\ ret_kept # <<>> =>
              \E i \in Eligible :
                  /\ ret_kept[1] = Strip(arg_phrases[i])
                  /\ \A j \in Eligible : Len(arg_phrases[j]) <= Len(arg_phrases[i])

(* the limit cuts off a second, different phrase; the phrase returned is the
   trimmed form of a padded one, the longest as given though not as trimmed *)
C17_Witness ==
    /\ cpc = "dedupe"
    /\ arg_max_repr = 1
    /\ Len(ret_kept) = 1
    /\ \E i, j \in Eligible :
          /\ ret_kept[1] = Strip(arg_phrases[i])
          /\ arg_phrases[i] # Strip(arg_phrases[i])
          /\ Len(arg_phrases[j]) < Len(arg_phrases[i])
          /\ Len(Strip(arg_phrases[j])) > Len(ret_kept[1])
          /\ dedupe_similar(arg_phrases, 2, Frac(3, 5)) =
                <<ret_kept[1], Strip(arg_phrases[j])>>

(* C18: whatever the report page offers, the score tables, the names and the
   PDF behind the download button, comes from the file now in the uploader *)
C18_ArtifactsFromCurrentUpload ==
    page.view = "report" =>
        /\ page.names = load_and_process(uploaded).data.names
        /\ page.df_dims = load_and_process(uploaded).data.df_dims
        /\ page.total = load_and_process(uploaded).data.total
        /\ page.download # <<>> =>
              page.download = <<BuildPdf(load_and_process(uploaded).data)>>

RECURSIVE CountSum(_)
CountSum(summaries) ==
    IF summaries = <<>> THEN 0
    ELSE Head(summaries).count + CountSum(Tail(summaries))

(* C19: every extracted phrase has a primary trigger, so the counts of the
   summaries add up to the number of extracted phrases *)
C19_EveryPhraseClassified ==
    tpc = "mined" =>
        /\ \A k \in 1..Len(pain_phrases) :
              primary_trigger(TRIGGER_ORDER, pain_phrases[k]) # None
        /\ CountSum(pain_summaries) = Len(pain_phrases)

(* two phrases, one of them with no trigger but a one-character one *)
C19_Witness ==
    /\ tpc = "mined"
    /\ Len(pain_phrases) = 2
    /\ \E k \in 1..2 : \A u \in Occurring(pain_phrases[k]) : Len(u) = 1

(* C20: there is one summary per theme label, the label being the display
   name of the primary trigger; phrases whose primary triggers differ but
   share the label are counted together, each phrase in one summary *)
C20_OneSummaryPerTheme ==
    tpc = "mined" =>
        /\ \A k, l \in 1..Len(pain_summaries) :
              k # l => pain_summaries[k].theme # pain_summaries[l].theme
        /\ {pain_summaries[k].theme : k \in 1..Len(pain_summaries)} =
              {ThemeOf(pain_phrases[i]) : i \in 1..Len(pain_phrases)}
        /\ \A k \in 1..Len(pain_summaries) :
              pain_summaries[k].count =
                  Cardinality({i \in 1..Len(pain_phrases) :
                                  ThemeOf(pain_phrases[i]) = pain_summaries[k].theme})

(* two phrases with different primary triggers under one label *)
C20_Witness ==
    /\ tpc = "mined"
    /\ \E i, j \in 1..Len(pain_phrases) :
          /\ primary_trigger(TRIGGER_ORDER, pain_phrases[i]) #
                 primary_trigger(TRIGGER_ORDER, pain_phrases[j])
          /\ ThemeOf(pain_phrases[i]) = ThemeOf(pain_phrases[j])
    /\ \E k \in 1..Len(pain_summaries) : pain_summaries[k].count = 2

(* ---------------- duplicates among the representatives ---------------- *)
Larger(a, b) == IF a >= b THEN a ELSE b

(* a is a part of b, b of a, or the characters they share are at least the
   fraction thr of the characters of the richer one *)
Duplicates(a, b, thr) ==
    \/ IsSubstring(a, b)
    \/ IsSubstring(b, a)
    \/ Cardinality(Range(a) \cap Range(b)) * thr.d >=
          thr.n * Larger(Larger(Cardinality(Range(a)), Cardinality(Range(b))), 1)

(* xu yao jia qiang gou tong; xu yao jia qiang tuan dui nei bu gou tong; wan
   quan bu tong de yi ju hua zai zhe li ("bu4" and "tong2" are the characters
   of nei bu and bu tong, others than those of bu zu and gou tong) *)
ExamplePhrases ==
    << <<"xu", "yao", "jia", "qiang", "gou", "tong">>,
       <<"xu", "yao", "jia", "qiang", "tuan", "dui", "nei", "bu4", "gou", "tong">>,
       <<"wan", "quan", "bu", "tong2", "de", "yi", "ju", "hua", "zai", "zhe", "li">> >>

(* C21: no two phrases _dedupe_similar returns are duplicates of one another,
   by inclusion or by shared characters; of the three example phrases, with
   threshold 0.55 and at most 2, it returns two, the longer of the two alike
   among them and not the shorter *)
C21_NoTwoAreDuplicates ==
    /\ cpc = "dedupe" =>
          \A i, j \in 1..Len(ret_kept) :
              i # j => ~Duplicates(ret_kept[i], ret_kept[j], Frac(3, 5))
    /\ Len(dedupe_similar(ExamplePhrases, 2, Frac(11, 20))) = 2
    /\ ExamplePhrases[2] \in Range(dedupe_similar(ExamplePhrases, 2, Frac(11, 20)))
    /\ ExamplePhrases[1] \notin Range(dedupe_similar(ExamplePhrases, 2, Frac(11, 20)))

(* room was left for a second representative, and an input phrase that is no
   part of the one returned was dropped for the characters it shares with it *)
C21_Witness ==
    /\ cpc = "dedupe"
    /\ arg_max_repr = 2
    /\ Len(ret_kept) = 1
    /\ \E i \in Eligible :
          /\ ~IsSubstring(Strip(arg_phrases[i]), ret_kept[1])
          /\ ~IsSubstring(ret_kept[1], Strip(arg_phrases[i]))
          /\ Duplicates(Strip(arg_phrases[i]), ret_kept[1], Frac(3, 5))

(* ---------------- the extraction on its own ---------------- *)
(* the qualifying segments of the text handed in, in text order *)
Qualifying == CandidatesFrom(arg_text, 1)

SamePrefix(a, b) == Prefix(a, 50) = Prefix(b, 50)

(* C22: no two extracted phrases have the same first 50 characters; an
   extracted phrase is the first qualifying segment of the text with its 50
   characters, whatever follows them in a later one; as long as the limit is
   not reached, a qualifying segment that differs from the earlier ones within
   its first 50 characters is extracted too *)
C22_DistinctByFiftyPrefix ==
    xpc = "done" =>
        /\ \A i, j \in 1..Len(ret_phrases) :
              i # j => ~SamePrefix(ret_phrases[i], ret_phrases[j])
        /\ \A k \in 1..Len(ret_phrases) :
              \E m \in 1..Len(Qualifying) :
                  /\ Qualifying[m] = ret_phrases[k]
                  /\ \A l \in 1..(m - 1) : ~SamePrefix(Qualifying[l], ret_phrases[k])
        /\ Len(ret_phrases) < arg_max_phrases =>
              \A m \in 1..Len(Qualifying) :
                  \E k \in 1..Len(ret_phrases) : SamePrefix(ret_phrases[k], Qualifying[m])

(* a segment alike in 50 characters and different after them is left out,
   and two phrases alike in 49 characters are both returned *)
C22_Witness ==
    /\ xpc = "done"
    /\ Len(ret_phrases) = 2
    /\ \E m \in 1..Len(Qualifying) :
          /\ SamePrefix(Qualifying[m], ret_phrases[1])
          /\ Qualifying[m] # ret_phrases[1]
    /\ Prefix(ret_phrases[1], 49) = Prefix(ret_phrases[2], 49)
    /\ Len(ret_phrases[2]) >= 50

(* C23: _extract_pain_point_phrases returns the first max_phrases qualifying
   segments of distinct 50-character prefix, in text order, and so never more
   than max_phrases and none for max_phrases = 0 *)
C23_AtMostMaxPhrases ==
    xpc = "done" =>
        /\ Len(ret_phrases) <= arg_max_phrases
        /\ ret_phrases = Prefix(DistinctByPrefix(Qualifying), arg_max_phrases)
        /\ arg_max_phrases = 0 => ret_phrases = <<>>

(* the limit leaves out a third phrase *)
C23_Witness ==
    /\ xpc = "done"
    /\ arg_max_phrases = 2
    /\ Len(ret_phrases) = 2
    /\ Len(DistinctByPrefix(Qualifying)) = 3

(* ---------------- summaries of extracted phrases ---------------- *)
(* C30: a summary made from extracted phrases counts at least one phrase and
   shows one or two representatives, each of them one of the phrases counted
   under its theme *)
C30_SummaryOfExtractedPhrases ==
    tpc = "mined" =>
        \A k \in 1..Len(pain_summaries) :
            /\ pain_summaries[k].count >= 1
            /\ Len(pain_summaries[k].reprs) \in 1..2
            /\ \A r \in 1..Len(pain_summaries[k].reprs) :
                  \E i \in Members(pain_summaries[k].theme) :
                      pain_phrases[i] = pain_summaries[k].reprs[r]

(* a theme of two phrases alike shows one representative, the phrase that was
   extracted second *)
C30_Witness ==
    /\ tpc = "mined"
    /\ \E k \in 1..Len(pain_summaries) :
          /\ pain_summaries[k].count = 2
          /\ pain_summaries[k].reprs = <<pain_phrases[2]>>

(* ---------------- the disclaimer gate ---------------- *)
(* C28: the report is on the page only when the upload was loaded without
   error and disclaimer_confirmed is True; disclaimer_confirmed turns True by
   the confirm button alone and is never reset, and once it is True no run
   shows the disclaimer again *)
C28_ReportBehindGate ==
    /\ [](page.view = "report" =>
             /\ disclaimer_confirmed
             /\ uploaded # NoFile
             /\ load_and_process(uploaded).status = "ok")
    /\ [][(~disclaimer_confirmed /\ disclaimer_confirmed') => ConfirmDisclaimer]_vars
    /\ [][disclaimer_confirmed => disclaimer_confirmed']_vars
    /\ [](disclaimer_confirmed => page.view # "disclaimer")

(* the report of a file uploaded after the confirmation: the PDF in the
   session state is that of an earlier file *)
C28_Witness ==
    /\ disclaimer_confirmed
    /\ page.view = "report"
    /\ pdf_report_bytes # <<>>
    /\ pdf_report_bytes # <<BuildPdf(load_and_process(uploaded).data)>>

(* ---------------- the report ---------------- *)
(* the dict load_and_process returned for the table of the report *)
Loaded == load_and_process(rfile).data

(* the arguments a hold what the handler computes from the tables of d *)
CoreResults(a, d) ==
    /\ a.dim_means = PdfDimMeans(d.df_dims)
    /\ a.behavior_avgs = get_behavior_avg_by_dimension(d.df_q, d.col_to_cat_be)
    /\ a.top3_high = Top3High(PersonScores(d))
    /\ a.top3_low = Top3Low(PersonScores(d))
    /\ a.anomaly_rows =
          PdfAnomalyRows(rfile, AnomalyRows(d.df_q, d.col_to_cat_be, Len(d.df_q.rows)))

(* w is a call of build_wordcloud_image on a text with words: an image when
   the backend renders with the mask or, tried again, without it, and else
   (None, [], message) *)
WordcloudOutcome(w) ==
    IF w.first_ok \/ w.second_ok
    THEN w.result.buf # None /\ w.result.top_words # <<>> /\ w.result.err = None
    ELSE w.result.buf = None /\ w.result.top_words = <<>> /\ w.result.err # None

(* C24: build_wordcloud_image returns an image if the backend renders with
   the mask or on the one retry without it, and (None, [], message) if both
   fail; whichever chart helper fails in the PDF handler, the run is not
   aborted, the buffer of a failed chart is empty, and the dimension means,
   behavior averages, top and bottom lists and the anomaly list handed to the
   report are the ones computed from the score tables *)
C24_RenderingFailureHarmless ==
    /\ rpc = "wordcloud" =>
          (Strip(wordcloud[1].text) # <<>> => WordcloudOutcome(wordcloud[1]))
    /\ rpc # "aborted"
    /\ rpc = "pdf" =>
          /\ pdf_args # <<>>
          /\ CoreResults(pdf_args[1], Loaded)
          /\ pdf_args[1].summary_chart_png \in {"png", "empty"}

(* both charts failed and the lists of the report are there *)
C24_Witness ==
    /\ rpc = "pdf"
    /\ pdf_args[1].summary_chart_png = "empty"
    /\ pdf_args[1].radar_images = <<>>
    /\ Len(pdf_args[1].top3_high) = 3
    /\ pdf_args[1].anomaly_rows # <<>>

(* C26: the anomaly list of the PDF and that of the anomaly tab are the same
   sequence of respondents, with the same identifier and uniform value *)
C26_SameAnomalyList ==
    rpc = "pdf" => pdf_args[1].anomaly_rows = tab5_rows

(* C27: the entry picked in the selector resolves to its own row: tab 3 and
   the radar of the PDF show the row of the entry *)
C27_SelectorResolvesOwnRow ==
    /\ rpc \in {"report", "pdf"} =>
          /\ tab3[1].idx = sel_pos
          /\ tab3[1].profile_row = rfile.rows[sel_pos]
          /\ tab3[1].total_person = Loaded.total[sel_pos]
          /\ tab3[1].row_dims = RowDims(Loaded.df_dims, sel_pos)
    /\ rpc = "pdf" =>
          \A r \in 1..Len(pdf_args[1].radar_images) :
              /\ pdf_args[1].radar_images[r].idx = sel_pos
              /\ pdf_args[1].radar_images[r].r_person = RowDims(Loaded.df_dims, sel_pos)

Lesser(a, b) == IF a <= b THEN a ELSE b

(* no defined score of the list is followed by a greater defined one *)
NonIncreasing(list) ==
    \A k, l \in 1..Len(list) : k < l => ~FloatLess(list[k].score, list[l].score)

NonDecreasing(list) ==
    \A k, l \in 1..Len(list) : k < l => ~FloatLess(list[l].score, list[k].score)

(* the respondents with a defined total that the list does not hold *)
LeftOut(list, d) ==
    {i \in 1..Len(d.names) :
        /\ ~IsNaN(d.total[i])
        /\ \A k \in 1..Len(list) :
              list[k] # [name |-> d.names[i], score |-> d.total[i]]}

(* C29: top3_high holds the three (or fewer) respondents of highest total in
   non-increasing order, top3_low those of lowest total in non-decreasing
   order; no respondent with a defined total who is left out of top3_high
   has a higher total than a member of it, none left out of top3_low a lower
   one, missing totals or not *)
C29_TopThreeRanked ==
    rpc = "pdf" =>
        /\ Len(pdf_args[1].top3_high) = Lesser(3, Len(rfile.rows))
        /\ Len(pdf_args[1].top3_low) = Lesser(3, Len(rfile.rows))
        /\ NonIncreasing(pdf_args[1].top3_high)
        /\ NonDecreasing(pdf_args[1].top3_low)
        /\ \A i \in LeftOut(pdf_args[1].top3_high, Loaded) :
              \A k \in 1..Len(pdf_args[1].top3_high) :
                  ~FloatLess(pdf_args[1].top3_high[k].score, Loaded.total[i])
        /\ \A i \in LeftOut(pdf_args[1].top3_low, Loaded) :
              \A k \in 1..Len(pdf_args[1].top3_low) :
                  ~FloatLess(Loaded.total[i], pdf_args[1].top3_low[k].score)

(* ---------------- the two pipelines interleaved ---------------- *)
(* what the text pipeline returns on the open column cells when run alone *)
TextOutcome(parts, order) ==
    IF parts = <<>>
    THEN [combined_text |-> <<>>, pain_phrases |-> <<>>, pain_summaries |-> <<>>]
    ELSE [combined_text |-> Join(parts, " "),
          pain_phrases |-> extract_pain_point_phrases(Join(parts, " "), 50),
          pain_summaries |->
              summarise_pain_point_phrases(order,
                  extract_pain_point_phrases(Join(parts, " "), 50))]

TextAlone(cells, order) == TextOutcome(AllTextParts(OpenTexts(cells)), order)

(* the results the aggregation has so far are those of a run alone on df *)
AggregationAsAlone(alone) ==
    /\ pc \in {"loaded", "done"} =>
          /\ alone.status = "ok"
          /\ df_q = alone.data.df_q
          /\ col_to_cat_be = alone.data.col_to_cat_be
          /\ df_dims = alone.data.df_dims
          /\ total = alone.data.total
    /\ pc = "done" =>
          /\ dim_means = OverviewDimMeans(alone.data.df_dims)
          /\ pdf_dim_means = PdfDimMeans(alone.data.df_dims)
          /\ behavior_avgs =
                get_behavior_avg_by_dimension(alone.data.df_q, alone.data.col_to_cat_be)
          /\ anomaly_rows =
                AnomalyRows(alone.data.df_q, alone.data.col_to_cat_be,
                            Len(alone.data.df_q.rows))

(* the results the text pipeline has so far are those of a run alone on the
   open column *)
TextAsAlone(alone) ==
    /\ tpc \in {"combined", "extracted", "mined"} => combined_text = alone.combined_text
    /\ tpc \in {"extracted", "mined"} => pain_phrases = alone.pain_phrases
    /\ tpc = "mined" => pain_summaries = alone.pain_summaries
    /\ tpc = "empty" => alone.combined_text = <<>>

(* C25: whatever the order of the steps of the aggregation pipeline and of
   the text pipeline on one dataset, each pipeline holds the results of a run
   alone: no step changes the question table, TRIGGER_ORDER or what the text
   pipeline would return on the open column, a step of one pipeline leaves
   the results of the other alone, and the results so far are those of the
   functions applied to the dataset *)
C25_PipelinesIndependent ==
    /\ [](AggregationAsAlone(load_and_process(df))
          /\ TextAsAlone(TextAlone(answers, TRIGGER_ORDER)))
    /\ [][/\ df' = df
          /\ TRIGGER_ORDER' = TRIGGER_ORDER
          /\ TextAlone(answers', TRIGGER_ORDER') = TextAlone(answers, TRIGGER_ORDER)
          /\ (tpc' # tpc => UNCHANGED <<pipevars, answers>>)
          /\ (pc' # pc => UNCHANGED <<tpc, combined_text, pain_phrases, pain_summaries>>)]_vars

(* both pipelines are through, the open column was filled in place between
   the steps, and both have results *)
C25_Witness ==
    /\ pc = "done"
    /\ tpc = "mined"
    /\ pain_summaries # <<>>
    /\ anomaly_rows # <<>>
    /\ \E i \in 1..Len(answers) : answers[i] = StrCell(<<"wu">>)
====
